---- MODULE Spec2Model ----
(***************************************************************************)
(* A model of the policy package of valhalla-common: the wildcard pattern  *)
(* matcher with its LRU cache of compiled patterns (policy/iam_matcher.go),*)
(* the template compiler CompileRegex, and the condition evaluator         *)
(* ConditionMather (policy/cond_matcher.go) with its operator functions.   *)
(*                                                                         *)
(* Go strings are sequences of bytes (0..255).  The regular-expression     *)
(* engine (regexp2, RE2 option) works on the runes of a string.            *)
(***************************************************************************)
EXTENDS Integers, Sequences, FiniteSets, TLC

VARIABLES
  cache,    \* RegexpMatcher.Cache: <<[key, reg]>>, most recently used first
  pc,       \* which operation the last step ran, and whether it has returned
  tpl,      \* CompileRegex: the template, a byte string
  cand,     \* the candidate matched against the compiled template
  tres,     \* what CompileRegex returned, and whether its expression matched
  ctxJSON,  \* ConditionMather: the context argument, a JSON document
  condJSON, \* ConditionMather: the condition argument, a JSON document
  cres,     \* what ConditionMather returned: its boolean, its error, or a panic
  handlers, \* union: what each handler of the chain answers to the request
  ures,     \* union: what the authenticator returned, and how many handlers it called
  sf,       \* idgen: the package generator _sf and the last id it gave
  idres,    \* idgen: what the last id function returned
  callers,  \* the goroutines that call Matches or MustMatch: each one's
            \* arguments, its position in the loop of matches, its locals and
            \* what its call returned
  lock,     \* the cache's mutex: the caller inside Get or Add, or Free
  recent,   \* history: the patterns looked up or inserted, most recent first
  handler,  \* runner: the error handler: "return" the error, or "log" it and return nil
  main,     \* runner: where RunServices is, and how many services it has started
  svc,      \* runner: each service goroutine: where it is, its runs so far, its error
  ctxDone,  \* runner: whether the context of RunServices is cancelled
  errChan,  \* runner: errChan, "open" or "closed"
  rret      \* runner: whether RunServices has returned, and the error it returned

matcherVars == <<cache>>
templateVars == <<tpl, cand, tres>>
condVars == <<ctxJSON, condJSON, cres>>
unionVars == <<handlers, ures>>
idgenVars == <<sf, idres>>
concVars == <<callers, lock, recent>>
runnerVars == <<handler, main, svc, ctxDone, errChan, rret>>
vars == <<cache, pc, tpl, cand, tres, ctxJSON, condJSON, cres,
          handlers, ures, sf, idres, callers, lock, recent,
          handler, main, svc, ctxDone, errChan, rret>>

(***************************************************************************)
(* Bounds of the model.                                                    *)
(***************************************************************************)
MaxNeedleLen == 2
MaxPatLen == 3
CacheSize == 2
MaxTplLen == 4
MaxCandLen == 2
MaxPairs == 2
MaxValues == 2
MaxHandlers == 3
MaxId == 12
MaxServices == 2
MaxRuns == 2
MaxCalls == 2

(***************************************************************************)
(* Strings.                                                                *)
(***************************************************************************)
RECURSIVE StringsOver(_, _)
\* every concatenation of at most n of the given characters (byte strings)
StringsOver(chars, n) ==
  IF n = 0 THEN {<<>>}
  ELSE LET shorter == StringsOver(chars, n - 1)
       IN shorter \cup {s \o c : s \in shorter, c \in chars}

\* strings.Contains(h, "*")
ContainsStar(h) == \E i \in 1..Len(h) : h[i] = 42

RECURSIVE SplitFrom(_, _, _)
SplitFrom(s, i, cur) ==
  IF i > Len(s) THEN <<cur>>
  ELSE IF s[i] = 44 THEN <<cur>> \o SplitFrom(s, i + 1, <<>>)
  ELSE SplitFrom(s, i + 1, Append(cur, s[i]))

\* a Matches that takes key2 as one element, commas included
SplitNone(s) == <<s>>

\* strings.Split(key2, ","): the elements between commas, empty ones included
Split(s) == SplitFrom(s, 1, <<>>)

\* utf8: the number of bytes the encoding that starts with byte b has, 0 for
\* a byte that starts none
SeqLen(b) ==
  IF b < 128 THEN 1
  ELSE IF b >= 194 /\ b <= 223 THEN 2
  ELSE IF b >= 224 /\ b <= 239 THEN 3
  ELSE IF b >= 240 /\ b <= 244 THEN 4
  ELSE 0

\* utf8 acceptRanges: the values the second byte may have after first byte b
SecondLo(b) == IF b = 224 THEN 160 ELSE IF b = 240 THEN 144 ELSE 128
SecondHi(b) == IF b = 237 THEN 159 ELSE IF b = 244 THEN 143 ELSE 191

IsCont(b) == b >= 128 /\ b <= 191

RECURSIVE DecodeFrom(_, _)
\* utf8.DecodeRuneInString from byte i on, rune after rune: a byte that
\* starts no valid encoding decodes to U+FFFD and is one byte wide
DecodeFrom(s, i) ==
  IF i > Len(s) THEN <<>>
  ELSE
    LET b == s[i]
        n == SeqLen(b)
        valid == /\ n >= 1 /\ i + n - 1 <= Len(s)
                 /\ n >= 2 => (s[i + 1] >= SecondLo(b) /\ s[i + 1] <= SecondHi(b))
                 /\ n >= 3 => IsCont(s[i + 2])
                 /\ n >= 4 => IsCont(s[i + 3])
    IN IF ~valid THEN <<65533>> \o DecodeFrom(s, i + 1)
       ELSE IF n = 1 THEN <<b>> \o DecodeFrom(s, i + 1)
       ELSE IF n = 2 THEN <<(b - 192) * 64 + (s[i + 1] - 128)>> \o DecodeFrom(s, i + 2)
       ELSE IF n = 3
       THEN <<(b - 224) * 4096 + (s[i + 1] - 128) * 64 + (s[i + 2] - 128)>>
              \o DecodeFrom(s, i + 3)
       ELSE <<(b - 240) * 262144 + (s[i + 1] - 128) * 4096 + (s[i + 2] - 128) * 64
                + (s[i + 3] - 128)>> \o DecodeFrom(s, i + 4)

\* []rune(s): the UTF-8 decoding of a Go string
Runes(s) == DecodeFrom(s, 1)

(***************************************************************************)
(* The regular expressions the package builds, as regexp2 (RE2 option)     *)
(* reads them: literals, escapes, ., character classes, the anchors        *)
(* ^ $ \A \z \Z \G \b \B, the quantifiers * + ? {n} {n,} {n,m} and their   *)
(* lazy forms, alternation, groups (plain, named, non-capturing),          *)
(* lookaround, the references \1 ... \9 and \k<name> to what a group has   *)
(* captured, comments (?#..), \x{..} and the class names [:alpha:] ...     *)
(* The constructs the model does not read are marked beyond: atomic        *)
(* groups, conditionals, inline options, Unicode categories \p, class      *)
(* subtraction, groups and references named by a number (\10, \k<1>,       *)
(* (?<1>..)), the reference \<name> and a referenced group inside a        *)
(* lookaround.  For a text with such a construct the model tells neither   *)
(* an expression nor an error.                                             *)
(***************************************************************************)
NoReg == [t |-> "nil"]

RegexSpecial == {92, 46, 43, 42, 63, 40, 41, 124, 91, 93, 123, 125, 94, 36}

RECURSIVE QuoteMeta(_)
\* regexp.QuoteMeta: a backslash before each of \.+*?()|[]{}^$
QuoteMeta(s) ==
  IF s = <<>> THEN <<>>
  ELSE (IF Head(s) \in RegexSpecial THEN <<92, Head(s)>> ELSE <<Head(s)>>)
         \o QuoteMeta(Tail(s))

\* the value of a hexadecimal digit, -1 for any other character
HexVal(c) ==
  IF c >= 48 /\ c <= 57 THEN c - 48
  ELSE IF c >= 97 /\ c <= 102 THEN c - 87
  ELSE IF c >= 65 /\ c <= 70 THEN c - 55
  ELSE -1

\* how many characters from position p of s on satisfy Is
RunOf(s, p, Is(_)) ==
  IF \E q \in p..Len(s) : ~Is(s[q])
  THEN (CHOOSE q \in p..Len(s) : ~Is(s[q]) /\ \A r \in p..(q - 1) : Is(s[r])) - p
  ELSE IF p > Len(s) THEN 0 ELSE Len(s) - p + 1

IsHex(c) == HexVal(c) >= 0
IsOctal(c) == c >= 48 /\ c <= 55
IsDecimal(c) == c >= 48 /\ c <= 57
IsWordByte(c) ==
  (c >= 48 /\ c <= 57) \/ (c >= 65 /\ c <= 90) \/ c = 95 \/ (c >= 97 /\ c <= 122)

RECURSIVE BaseValue(_, _)
\* the number the digits d write in the given base
BaseValue(d, base) ==
  IF d = <<>> THEN 0
  ELSE BaseValue(SubSeq(d, 1, Len(d) - 1), base) * base + HexVal(d[Len(d)])

\* a scan that failed on a syntax error, a scan that met a construct the
\* model does not read, and a scan that read a node up to position i
Fail(i) == [err |-> TRUE, beyond |-> FALSE, node |-> NoReg, pos |-> i]
Beyond(i) == [err |-> TRUE, beyond |-> TRUE, node |-> NoReg, pos |-> i]
Scanned(node, i) == [err |-> FALSE, beyond |-> FALSE, node |-> node, pos |-> i]
AsFail(r) == IF r.beyond THEN Beyond(r.pos) ELSE Fail(r.pos)

\* the runs of runes of the general categories L, Mn, Nd and Pc from U+0080
\* on, each as <<first, last>>, with U+200C and U+200D among them: the tables
\* unicode.L, unicode.Mn, unicode.Nd and unicode.Pc of Unicode 15.0.0
WordRanges ==
  <<
     <<170, 170>>, <<181, 181>>, <<186, 186>>, <<192, 214>>, <<216, 246>>,
     <<248, 705>>, <<710, 721>>, <<736, 740>>, <<748, 748>>, <<750, 750>>,
     <<768, 884>>, <<886, 887>>, <<890, 893>>, <<895, 895>>, <<902, 902>>,
     <<904, 906>>, <<908, 908>>, <<910, 929>>, <<931, 1013>>, <<1015, 1153>>,
     <<1155, 1159>>, <<1162, 1327>>, <<1329, 1366>>, <<1369, 1369>>, <<1376, 1416>>,
     <<1425, 1469>>, <<1471, 1471>>, <<1473, 1474>>, <<1476, 1477>>, <<1479, 1479>>,
     <<1488, 1514>>, <<1519, 1522>>, <<1552, 1562>>, <<1568, 1641>>, <<1646, 1747>>,
     <<1749, 1756>>, <<1759, 1768>>, <<1770, 1788>>, <<1791, 1791>>, <<1808, 1866>>,
     <<1869, 1969>>, <<1984, 2037>>, <<2042, 2042>>, <<2045, 2045>>, <<2048, 2093>>,
     <<2112, 2139>>, <<2144, 2154>>, <<2160, 2183>>, <<2185, 2190>>, <<2200, 2273>>,
     <<2275, 2306>>, <<2308, 2362>>, <<2364, 2365>>, <<2369, 2376>>, <<2381, 2381>>,
     <<2384, 2403>>, <<2406, 2415>>, <<2417, 2433>>, <<2437, 2444>>, <<2447, 2448>>,
     <<2451, 2472>>, <<2474, 2480>>, <<2482, 2482>>, <<2486, 2489>>, <<2492, 2493>>,
     <<2497, 2500>>, <<2509, 2510>>, <<2524, 2525>>, <<2527, 2531>>, <<2534, 2545>>,
     <<2556, 2556>>, <<2558, 2558>>, <<2561, 2562>>, <<2565, 2570>>, <<2575, 2576>>,
     <<2579, 2600>>, <<2602, 2608>>, <<2610, 2611>>, <<2613, 2614>>, <<2616, 2617>>,
     <<2620, 2620>>, <<2625, 2626>>, <<2631, 2632>>, <<2635, 2637>>, <<2641, 2641>>,
     <<2649, 2652>>, <<2654, 2654>>, <<2662, 2677>>, <<2689, 2690>>, <<2693, 2701>>,
     <<2703, 2705>>, <<2707, 2728>>, <<2730, 2736>>, <<2738, 2739>>, <<2741, 2745>>,
     <<2748, 2749>>, <<2753, 2757>>, <<2759, 2760>>, <<2765, 2765>>, <<2768, 2768>>,
     <<2784, 2787>>, <<2790, 2799>>, <<2809, 2815>>, <<2817, 2817>>, <<2821, 2828>>,
     <<2831, 2832>>, <<2835, 2856>>, <<2858, 2864>>, <<2866, 2867>>, <<2869, 2873>>,
     <<2876, 2877>>, <<2879, 2879>>, <<2881, 2884>>, <<2893, 2893>>, <<2901, 2902>>,
     <<2908, 2909>>, <<2911, 2915>>, <<2918, 2927>>, <<2929, 2929>>, <<2946, 2947>>,
     <<2949, 2954>>, <<2958, 2960>>, <<2962, 2965>>, <<2969, 2970>>, <<2972, 2972>>,
     <<2974, 2975>>, <<2979, 2980>>, <<2984, 2986>>, <<2990, 3001>>, <<3008, 3008>>,
     <<3021, 3021>>, <<3024, 3024>>, <<3046, 3055>>, <<3072, 3072>>, <<3076, 3084>>,
     <<3086, 3088>>, <<3090, 3112>>, <<3114, 3129>>, <<3132, 3136>>, <<3142, 3144>>,
     <<3146, 3149>>, <<3157, 3158>>, <<3160, 3162>>, <<3165, 3165>>, <<3168, 3171>>,
     <<3174, 3183>>, <<3200, 3201>>, <<3205, 3212>>, <<3214, 3216>>, <<3218, 3240>>,
     <<3242, 3251>>, <<3253, 3257>>, <<3260, 3261>>, <<3263, 3263>>, <<3270, 3270>>,
     <<3276, 3277>>, <<3293, 3294>>, <<3296, 3299>>, <<3302, 3311>>, <<3313, 3314>>,
     <<3328, 3329>>, <<3332, 3340>>, <<3342, 3344>>, <<3346, 3389>>, <<3393, 3396>>,
     <<3405, 3406>>, <<3412, 3414>>, <<3423, 3427>>, <<3430, 3439>>, <<3450, 3455>>,
     <<3457, 3457>>, <<3461, 3478>>, <<3482, 3505>>, <<3507, 3515>>, <<3517, 3517>>,
     <<3520, 3526>>, <<3530, 3530>>, <<3538, 3540>>, <<3542, 3542>>, <<3558, 3567>>,
     <<3585, 3642>>, <<3648, 3662>>, <<3664, 3673>>, <<3713, 3714>>, <<3716, 3716>>,
     <<3718, 3722>>, <<3724, 3747>>, <<3749, 3749>>, <<3751, 3773>>, <<3776, 3780>>,
     <<3782, 3782>>, <<3784, 3790>>, <<3792, 3801>>, <<3804, 3807>>, <<3840, 3840>>,
     <<3864, 3865>>, <<3872, 3881>>, <<3893, 3893>>, <<3895, 3895>>, <<3897, 3897>>,
     <<3904, 3911>>, <<3913, 3948>>, <<3953, 3966>>, <<3968, 3972>>, <<3974, 3991>>,
     <<3993, 4028>>, <<4038, 4038>>, <<4096, 4138>>, <<4141, 4144>>, <<4146, 4151>>,
     <<4153, 4154>>, <<4157, 4169>>, <<4176, 4181>>, <<4184, 4193>>, <<4197, 4198>>,
     <<4206, 4226>>, <<4229, 4230>>, <<4237, 4238>>, <<4240, 4249>>, <<4253, 4253>>,
     <<4256, 4293>>, <<4295, 4295>>, <<4301, 4301>>, <<4304, 4346>>, <<4348, 4680>>,
     <<4682, 4685>>, <<4688, 4694>>, <<4696, 4696>>, <<4698, 4701>>, <<4704, 4744>>,
     <<4746, 4749>>, <<4752, 4784>>, <<4786, 4789>>, <<4792, 4798>>, <<4800, 4800>>,
     <<4802, 4805>>, <<4808, 4822>>, <<4824, 4880>>, <<4882, 4885>>, <<4888, 4954>>,
     <<4957, 4959>>, <<4992, 5007>>, <<5024, 5109>>, <<5112, 5117>>, <<5121, 5740>>,
     <<5743, 5759>>, <<5761, 5786>>, <<5792, 5866>>, <<5873, 5880>>, <<5888, 5908>>,
     <<5919, 5939>>, <<5952, 5971>>, <<5984, 5996>>, <<5998, 6000>>, <<6002, 6003>>,
     <<6016, 6069>>, <<6071, 6077>>, <<6086, 6086>>, <<6089, 6099>>, <<6103, 6103>>,
     <<6108, 6109>>, <<6112, 6121>>, <<6155, 6157>>, <<6159, 6169>>, <<6176, 6264>>,
     <<6272, 6314>>, <<6320, 6389>>, <<6400, 6430>>, <<6432, 6434>>, <<6439, 6440>>,
     <<6450, 6450>>, <<6457, 6459>>, <<6470, 6509>>, <<6512, 6516>>, <<6528, 6571>>,
     <<6576, 6601>>, <<6608, 6617>>, <<6656, 6680>>, <<6683, 6683>>, <<6688, 6740>>,
     <<6742, 6742>>, <<6744, 6750>>, <<6752, 6752>>, <<6754, 6754>>, <<6757, 6764>>,
     <<6771, 6780>>, <<6783, 6793>>, <<6800, 6809>>, <<6823, 6823>>, <<6832, 6845>>,
     <<6847, 6862>>, <<6912, 6915>>, <<6917, 6964>>, <<6966, 6970>>, <<6972, 6972>>,
     <<6978, 6978>>, <<6981, 6988>>, <<6992, 7001>>, <<7019, 7027>>, <<7040, 7041>>,
     <<7043, 7072>>, <<7074, 7077>>, <<7080, 7081>>, <<7083, 7142>>, <<7144, 7145>>,
     <<7149, 7149>>, <<7151, 7153>>, <<7168, 7203>>, <<7212, 7219>>, <<7222, 7223>>,
     <<7232, 7241>>, <<7245, 7293>>, <<7296, 7304>>, <<7312, 7354>>, <<7357, 7359>>,
     <<7376, 7378>>, <<7380, 7392>>, <<7394, 7414>>, <<7416, 7418>>, <<7424, 7957>>,
     <<7960, 7965>>, <<7968, 8005>>, <<8008, 8013>>, <<8016, 8023>>, <<8025, 8025>>,
     <<8027, 8027>>, <<8029, 8029>>, <<8031, 8061>>, <<8064, 8116>>, <<8118, 8124>>,
     <<8126, 8126>>, <<8130, 8132>>, <<8134, 8140>>, <<8144, 8147>>, <<8150, 8155>>,
     <<8160, 8172>>, <<8178, 8180>>, <<8182, 8188>>, <<8204, 8205>>, <<8255, 8256>>,
     <<8276, 8276>>, <<8305, 8305>>, <<8319, 8319>>, <<8336, 8348>>, <<8400, 8412>>,
     <<8417, 8417>>, <<8421, 8432>>, <<8450, 8450>>, <<8455, 8455>>, <<8458, 8467>>,
     <<8469, 8469>>, <<8473, 8477>>, <<8484, 8484>>, <<8486, 8486>>, <<8488, 8488>>,
     <<8490, 8493>>, <<8495, 8505>>, <<8508, 8511>>, <<8517, 8521>>, <<8526, 8526>>,
     <<8579, 8580>>, <<11264, 11492>>, <<11499, 11507>>, <<11520, 11557>>, <<11559, 11559>>,
     <<11565, 11565>>, <<11568, 11623>>, <<11631, 11631>>, <<11647, 11670>>, <<11680, 11686>>,
     <<11688, 11694>>, <<11696, 11702>>, <<11704, 11710>>, <<11712, 11718>>, <<11720, 11726>>,
     <<11728, 11734>>, <<11736, 11742>>, <<11744, 11775>>, <<11823, 11823>>, <<12293, 12294>>,
     <<12330, 12333>>, <<12337, 12341>>, <<12347, 12348>>, <<12353, 12438>>, <<12441, 12442>>,
     <<12445, 12447>>, <<12449, 12538>>, <<12540, 12543>>, <<12549, 12591>>, <<12593, 12686>>,
     <<12704, 12735>>, <<12784, 12799>>, <<13312, 19903>>, <<19968, 42124>>, <<42192, 42237>>,
     <<42240, 42508>>, <<42512, 42539>>, <<42560, 42607>>, <<42612, 42621>>, <<42623, 42725>>,
     <<42736, 42737>>, <<42775, 42783>>, <<42786, 42888>>, <<42891, 42954>>, <<42960, 42961>>,
     <<42963, 42963>>, <<42965, 42969>>, <<42994, 43042>>, <<43045, 43046>>, <<43052, 43052>>,
     <<43072, 43123>>, <<43138, 43187>>, <<43204, 43205>>, <<43216, 43225>>, <<43232, 43255>>,
     <<43259, 43259>>, <<43261, 43309>>, <<43312, 43345>>, <<43360, 43388>>, <<43392, 43394>>,
     <<43396, 43443>>, <<43446, 43449>>, <<43452, 43453>>, <<43471, 43481>>, <<43488, 43518>>,
     <<43520, 43566>>, <<43569, 43570>>, <<43573, 43574>>, <<43584, 43596>>, <<43600, 43609>>,
     <<43616, 43638>>, <<43642, 43642>>, <<43644, 43644>>, <<43646, 43714>>, <<43739, 43741>>,
     <<43744, 43754>>, <<43756, 43757>>, <<43762, 43764>>, <<43766, 43766>>, <<43777, 43782>>,
     <<43785, 43790>>, <<43793, 43798>>, <<43808, 43814>>, <<43816, 43822>>, <<43824, 43866>>,
     <<43868, 43881>>, <<43888, 44002>>, <<44005, 44005>>, <<44008, 44008>>, <<44013, 44013>>,
     <<44016, 44025>>, <<44032, 55203>>, <<55216, 55238>>, <<55243, 55291>>, <<63744, 64109>>,
     <<64112, 64217>>, <<64256, 64262>>, <<64275, 64279>>, <<64285, 64296>>, <<64298, 64310>>,
     <<64312, 64316>>, <<64318, 64318>>, <<64320, 64321>>, <<64323, 64324>>, <<64326, 64433>>,
     <<64467, 64829>>, <<64848, 64911>>, <<64914, 64967>>, <<65008, 65019>>, <<65024, 65039>>,
     <<65056, 65071>>, <<65075, 65076>>, <<65101, 65103>>, <<65136, 65140>>, <<65142, 65276>>,
     <<65296, 65305>>, <<65313, 65338>>, <<65343, 65343>>, <<65345, 65370>>, <<65382, 65470>>,
     <<65474, 65479>>, <<65482, 65487>>, <<65490, 65495>>, <<65498, 65500>>, <<65536, 65547>>,
     <<65549, 65574>>, <<65576, 65594>>, <<65596, 65597>>, <<65599, 65613>>, <<65616, 65629>>,
     <<65664, 65786>>, <<66045, 66045>>, <<66176, 66204>>, <<66208, 66256>>, <<66272, 66272>>,
     <<66304, 66335>>, <<66349, 66368>>, <<66370, 66377>>, <<66384, 66426>>, <<66432, 66461>>,
     <<66464, 66499>>, <<66504, 66511>>, <<66560, 66717>>, <<66720, 66729>>, <<66736, 66771>>,
     <<66776, 66811>>, <<66816, 66855>>, <<66864, 66915>>, <<66928, 66938>>, <<66940, 66954>>,
     <<66956, 66962>>, <<66964, 66965>>, <<66967, 66977>>, <<66979, 66993>>, <<66995, 67001>>,
     <<67003, 67004>>, <<67072, 67382>>, <<67392, 67413>>, <<67424, 67431>>, <<67456, 67461>>,
     <<67463, 67504>>, <<67506, 67514>>, <<67584, 67589>>, <<67592, 67592>>, <<67594, 67637>>,
     <<67639, 67640>>, <<67644, 67644>>, <<67647, 67669>>, <<67680, 67702>>, <<67712, 67742>>,
     <<67808, 67826>>, <<67828, 67829>>, <<67840, 67861>>, <<67872, 67897>>, <<67968, 68023>>,
     <<68030, 68031>>, <<68096, 68099>>, <<68101, 68102>>, <<68108, 68115>>, <<68117, 68119>>,
     <<68121, 68149>>, <<68152, 68154>>, <<68159, 68159>>, <<68192, 68220>>, <<68224, 68252>>,
     <<68288, 68295>>, <<68297, 68326>>, <<68352, 68405>>, <<68416, 68437>>, <<68448, 68466>>,
     <<68480, 68497>>, <<68608, 68680>>, <<68736, 68786>>, <<68800, 68850>>, <<68864, 68903>>,
     <<68912, 68921>>, <<69248, 69289>>, <<69291, 69292>>, <<69296, 69297>>, <<69373, 69404>>,
     <<69415, 69415>>, <<69424, 69456>>, <<69488, 69509>>, <<69552, 69572>>, <<69600, 69622>>,
     <<69633, 69633>>, <<69635, 69702>>, <<69734, 69749>>, <<69759, 69761>>, <<69763, 69807>>,
     <<69811, 69814>>, <<69817, 69818>>, <<69826, 69826>>, <<69840, 69864>>, <<69872, 69881>>,
     <<69888, 69931>>, <<69933, 69940>>, <<69942, 69951>>, <<69956, 69956>>, <<69959, 69959>>,
     <<69968, 70003>>, <<70006, 70006>>, <<70016, 70017>>, <<70019, 70066>>, <<70070, 70078>>,
     <<70081, 70084>>, <<70089, 70092>>, <<70095, 70106>>, <<70108, 70108>>, <<70144, 70161>>,
     <<70163, 70187>>, <<70191, 70193>>, <<70196, 70196>>, <<70198, 70199>>, <<70206, 70209>>,
     <<70272, 70278>>, <<70280, 70280>>, <<70282, 70285>>, <<70287, 70301>>, <<70303, 70312>>,
     <<70320, 70367>>, <<70371, 70378>>, <<70384, 70393>>, <<70400, 70401>>, <<70405, 70412>>,
     <<70415, 70416>>, <<70419, 70440>>, <<70442, 70448>>, <<70450, 70451>>, <<70453, 70457>>,
     <<70459, 70461>>, <<70464, 70464>>, <<70480, 70480>>, <<70493, 70497>>, <<70502, 70508>>,
     <<70512, 70516>>, <<70656, 70708>>, <<70712, 70719>>, <<70722, 70724>>, <<70726, 70730>>,
     <<70736, 70745>>, <<70750, 70753>>, <<70784, 70831>>, <<70835, 70840>>, <<70842, 70842>>,
     <<70847, 70848>>, <<70850, 70853>>, <<70855, 70855>>, <<70864, 70873>>, <<71040, 71086>>,
     <<71090, 71093>>, <<71100, 71101>>, <<71103, 71104>>, <<71128, 71133>>, <<71168, 71215>>,
     <<71219, 71226>>, <<71229, 71229>>, <<71231, 71232>>, <<71236, 71236>>, <<71248, 71257>>,
     <<71296, 71339>>, <<71341, 71341>>, <<71344, 71349>>, <<71351, 71352>>, <<71360, 71369>>,
     <<71424, 71450>>, <<71453, 71455>>, <<71458, 71461>>, <<71463, 71467>>, <<71472, 71481>>,
     <<71488, 71494>>, <<71680, 71723>>, <<71727, 71735>>, <<71737, 71738>>, <<71840, 71913>>,
     <<71935, 71942>>, <<71945, 71945>>, <<71948, 71955>>, <<71957, 71958>>, <<71960, 71983>>,
     <<71995, 71996>>, <<71998, 71999>>, <<72001, 72001>>, <<72003, 72003>>, <<72016, 72025>>,
     <<72096, 72103>>, <<72106, 72144>>, <<72148, 72151>>, <<72154, 72155>>, <<72160, 72161>>,
     <<72163, 72163>>, <<72192, 72248>>, <<72250, 72254>>, <<72263, 72263>>, <<72272, 72278>>,
     <<72281, 72342>>, <<72344, 72345>>, <<72349, 72349>>, <<72368, 72440>>, <<72704, 72712>>,
     <<72714, 72750>>, <<72752, 72758>>, <<72760, 72765>>, <<72767, 72768>>, <<72784, 72793>>,
     <<72818, 72847>>, <<72850, 72871>>, <<72874, 72880>>, <<72882, 72883>>, <<72885, 72886>>,
     <<72960, 72966>>, <<72968, 72969>>, <<72971, 73014>>, <<73018, 73018>>, <<73020, 73021>>,
     <<73023, 73031>>, <<73040, 73049>>, <<73056, 73061>>, <<73063, 73064>>, <<73066, 73097>>,
     <<73104, 73105>>, <<73109, 73109>>, <<73111, 73112>>, <<73120, 73129>>, <<73440, 73460>>,
     <<73472, 73474>>, <<73476, 73488>>, <<73490, 73523>>, <<73526, 73530>>, <<73536, 73536>>,
     <<73538, 73538>>, <<73552, 73561>>, <<73648, 73648>>, <<73728, 74649>>, <<74880, 75075>>,
     <<77712, 77808>>, <<77824, 78895>>, <<78912, 78933>>, <<82944, 83526>>, <<92160, 92728>>,
     <<92736, 92766>>, <<92768, 92777>>, <<92784, 92862>>, <<92864, 92873>>, <<92880, 92909>>,
     <<92912, 92916>>, <<92928, 92982>>, <<92992, 92995>>, <<93008, 93017>>, <<93027, 93047>>,
     <<93053, 93071>>, <<93760, 93823>>, <<93952, 94026>>, <<94031, 94032>>, <<94095, 94111>>,
     <<94176, 94177>>, <<94179, 94180>>, <<94208, 100343>>, <<100352, 101589>>, <<101632, 101640>>,
     <<110576, 110579>>, <<110581, 110587>>, <<110589, 110590>>, <<110592, 110882>>, <<110898, 110898>>,
     <<110928, 110930>>, <<110933, 110933>>,
     <<110948, 110951>>, <<110960, 111355>>, <<113664, 113770>>, <<113776, 113788>>, <<113792, 113800>>,
     <<113808, 113817>>, <<113821, 113822>>, <<118528, 118573>>, <<118576, 118598>>, <<119143, 119145>>,
     <<119163, 119170>>, <<119173, 119179>>, <<119210, 119213>>, <<119362, 119364>>, <<119808, 119892>>,
     <<119894, 119964>>, <<119966, 119967>>, <<119970, 119970>>, <<119973, 119974>>, <<119977, 119980>>,
     <<119982, 119993>>, <<119995, 119995>>, <<119997, 120003>>, <<120005, 120069>>, <<120071, 120074>>,
     <<120077, 120084>>, <<120086, 120092>>, <<120094, 120121>>, <<120123, 120126>>, <<120128, 120132>>,
     <<120134, 120134>>, <<120138, 120144>>, <<120146, 120485>>, <<120488, 120512>>, <<120514, 120538>>,
     <<120540, 120570>>, <<120572, 120596>>, <<120598, 120628>>, <<120630, 120654>>, <<120656, 120686>>,
     <<120688, 120712>>, <<120714, 120744>>, <<120746, 120770>>, <<120772, 120779>>, <<120782, 120831>>,
     <<121344, 121398>>, <<121403, 121452>>, <<121461, 121461>>, <<121476, 121476>>, <<121499, 121503>>,
     <<121505, 121519>>, <<122624, 122654>>, <<122661, 122666>>, <<122880, 122886>>, <<122888, 122904>>,
     <<122907, 122913>>, <<122915, 122916>>, <<122918, 122922>>, <<122928, 122989>>, <<123023, 123023>>,
     <<123136, 123180>>, <<123184, 123197>>, <<123200, 123209>>, <<123214, 123214>>, <<123536, 123566>>,
     <<123584, 123641>>, <<124112, 124153>>, <<124896, 124902>>, <<124904, 124907>>, <<124909, 124910>>,
     <<124912, 124926>>, <<124928, 125124>>, <<125136, 125142>>, <<125184, 125259>>, <<125264, 125273>>,
     <<126464, 126467>>, <<126469, 126495>>, <<126497, 126498>>, <<126500, 126500>>, <<126503, 126503>>,
     <<126505, 126514>>, <<126516, 126519>>, <<126521, 126521>>, <<126523, 126523>>, <<126530, 126530>>,
     <<126535, 126535>>, <<126537, 126537>>, <<126539, 126539>>, <<126541, 126543>>, <<126545, 126546>>,
     <<126548, 126548>>, <<126551, 126551>>, <<126553, 126553>>, <<126555, 126555>>, <<126557, 126557>>,
     <<126559, 126559>>, <<126561, 126562>>, <<126564, 126564>>, <<126567, 126570>>, <<126572, 126578>>,
     <<126580, 126583>>, <<126585, 126588>>, <<126590, 126590>>, <<126592, 126601>>, <<126603, 126619>>,
     <<126625, 126627>>, <<126629, 126633>>, <<126635, 126651>>, <<130032, 130041>>, <<131072, 173791>>,
     <<173824, 177977>>, <<177984, 178205>>, <<178208, 183969>>, <<183984, 191456>>, <<194560, 195101>>,
     <<196608, 201546>>, <<201552, 205743>>, <<917760, 917999>>
  >>

\* IsWordChar of regexp2, which decides \b and \B: a rune of category L, Mn,
\* Nd or Pc, or the joiner U+200D or the non-joiner U+200C
IsWordChar(r) ==
  IF r < 128 THEN IsWordByte(r)
  ELSE \E i \in 1..Len(WordRanges) : WordRanges[i][1] <= r /\ r <= WordRanges[i][2]

\* the runs of runes of the general category Nd, each as <<first, last>>: the
\* table unicode.Nd of Unicode 15.0.0
DigitRanges ==
  <<
     <<48, 57>>, <<1632, 1641>>, <<1776, 1785>>, <<1984, 1993>>, <<2406, 2415>>,
     <<2534, 2543>>, <<2662, 2671>>, <<2790, 2799>>, <<2918, 2927>>, <<3046, 3055>>,
     <<3174, 3183>>, <<3302, 3311>>, <<3430, 3439>>, <<3558, 3567>>, <<3664, 3673>>,
     <<3792, 3801>>, <<3872, 3881>>, <<4160, 4169>>, <<4240, 4249>>, <<6112, 6121>>,
     <<6160, 6169>>, <<6470, 6479>>, <<6608, 6617>>, <<6784, 6793>>, <<6800, 6809>>,
     <<6992, 7001>>, <<7088, 7097>>, <<7232, 7241>>, <<7248, 7257>>, <<42528, 42537>>,
     <<43216, 43225>>, <<43264, 43273>>, <<43472, 43481>>, <<43504, 43513>>, <<43600, 43609>>,
     <<44016, 44025>>, <<65296, 65305>>, <<66720, 66729>>, <<68912, 68921>>, <<69734, 69743>>,
     <<69872, 69881>>, <<69942, 69951>>, <<70096, 70105>>, <<70384, 70393>>, <<70736, 70745>>,
     <<70864, 70873>>, <<71248, 71257>>, <<71360, 71369>>, <<71472, 71481>>, <<71904, 71913>>,
     <<72016, 72025>>, <<72784, 72793>>, <<73040, 73049>>, <<73120, 73129>>, <<73552, 73561>>,
     <<92768, 92777>>, <<92864, 92873>>, <<93008, 93017>>, <<120782, 120831>>, <<123200, 123209>>,
     <<123632, 123641>>, <<124144, 124153>>, <<125264, 125273>>, <<130032, 130041>>
  >>

RECURSIVE NegativeRanges(_, _)
\* addNegativeRanges: the runs between the runs rs, which are in order, from
\* the rune hi on
NegativeRanges(rs, hi) ==
  IF rs = <<>> THEN (IF hi < 1114111 THEN <<<<hi, 1114111>>>> ELSE <<>>)
  ELSE (IF hi < rs[1][1] THEN <<<<hi, rs[1][1] - 1>>>> ELSE <<>>)
         \o NegativeRanges(Tail(rs), rs[1][2] + 1)

\* the names of addNamedASCII: alnum alpha ascii blank cntrl digit graph lower
\* print punct space upper word xdigit
NamedASCII ==
  [name \in {<<97, 108, 110, 117, 109>>, <<97, 108, 112, 104, 97>>,
             <<97, 115, 99, 105, 105>>, <<98, 108, 97, 110, 107>>,
             <<99, 110, 116, 114, 108>>, <<100, 105, 103, 105, 116>>,
             <<103, 114, 97, 112, 104>>, <<108, 111, 119, 101, 114>>,
             <<112, 114, 105, 110, 116>>, <<112, 117, 110, 99, 116>>,
             <<115, 112, 97, 99, 101>>, <<117, 112, 112, 101, 114>>,
             <<119, 111, 114, 100>>, <<120, 100, 105, 103, 105, 116>>} |->
     CASE name = <<97, 108, 110, 117, 109>> -> <<<<48, 57>>, <<65, 90>>, <<97, 122>>>>
       [] name = <<97, 108, 112, 104, 97>> -> <<<<65, 90>>, <<97, 122>>>>
       [] name = <<97, 115, 99, 105, 105>> -> <<<<0, 127>>>>
       [] name = <<98, 108, 97, 110, 107>> -> <<<<9, 9>>, <<32, 32>>>>
       [] name = <<99, 110, 116, 114, 108>> -> <<<<0, 31>>, <<127, 127>>>>
       [] name = <<100, 105, 103, 105, 116>> -> DigitRanges
       [] name = <<103, 114, 97, 112, 104>> -> <<<<33, 126>>>>
       [] name = <<108, 111, 119, 101, 114>> -> <<<<97, 122>>>>
       [] name = <<112, 114, 105, 110, 116>> -> <<<<32, 126>>>>
       [] name = <<112, 117, 110, 99, 116>> ->
            <<<<33, 47>>, <<58, 64>>, <<91, 96>>, <<123, 126>>>>
       [] name = <<115, 112, 97, 99, 101>> -> <<<<9, 13>>, <<32, 32>>>>
       [] name = <<117, 112, 112, 101, 114>> -> <<<<65, 90>>>>
       [] name = <<119, 111, 114, 100>> ->
            <<<<48, 57>>, <<65, 90>>, <<95, 95>>, <<97, 122>>, <<304, 304>>>>
       [] OTHER -> <<<<48, 57>>, <<65, 70>>, <<97, 102>>>>]

\* the runes addNamedASCII adds for a name it knows, negated or not, as a set
\* of ranges
NamedRanges(name, negate) ==
  IF negate
  THEN {NegativeRanges(NamedASCII[name], 0)[k] :
          k \in 1..Len(NegativeRanges(NamedASCII[name], 0))}
  ELSE {NamedASCII[name][k] : k \in 1..Len(NamedASCII[name])}

\* the classes of \d \w \s under the RE2 option, and of \D \W \S, as sets of
\* ranges of runes
ClassEscapes == {100, 68, 119, 87, 115, 83}
ClassOf(e) ==
  CASE e = 100 -> {<<48, 57>>}
    [] e = 68 -> {<<0, 47>>, <<58, 1114111>>}
    [] e = 119 -> {<<48, 57>>, <<65, 90>>, <<95, 95>>, <<97, 122>>, <<304, 304>>}
    [] e = 87 -> {<<0, 47>>, <<58, 64>>, <<91, 94>>, <<96, 96>>, <<123, 303>>,
                  <<305, 1114111>>}
    [] e = 115 -> {<<9, 10>>, <<12, 13>>, <<32, 32>>}
    [] e = 83 -> {<<0, 8>>, <<11, 11>>, <<14, 31>>, <<33, 1114111>>}

\* an escaped character c read up to position pos, and an escape that is an
\* error at position j
Escaped(c, pos) == [err |-> FALSE, beyond |-> FALSE, pos |-> pos, c |-> c]
NoEscape(j, beyond) == [err |-> TRUE, beyond |-> beyond, pos |-> j, c |-> 0]

\* scanOctal: the n octal digits from position j of t, as a byte
OctalEscape(t, j, n) == Escaped(BaseValue(SubSeq(t, j, j + n - 1), 8) % 256, j + n)

\* scanControl: \cX with the letter X taken in upper case as x
ControlEscape(j, x) ==
  IF x < 64 THEN NoEscape(j, TRUE)
  ELSE IF x - 64 < 32 THEN Escaped(x - 64, j + 2)
  ELSE NoEscape(j, FALSE)

RECURSIVE HexUntilBrace(_, _)
\* the number the hexadecimal digits d write after the value n, or -1 once it
\* is more than unicode.MaxRune
HexUntilBrace(d, n) ==
  IF d = <<>> THEN n
  ELSE IF n * 16 + HexVal(d[1]) > 1114111 THEN -1
  ELSE HexUntilBrace(Tail(d), n * 16 + HexVal(d[1]))

\* scanHexUntilBrace after the \x{ whose x is at position j of t, n
\* hexadecimal digits following the brace: at least one digit, then }
BraceEscape(t, j, n) ==
  IF n = 0 \/ j + 2 + n > Len(t) \/ t[j + 2 + n] # 125 THEN NoEscape(j, FALSE)
  ELSE IF HexUntilBrace(SubSeq(t, j + 2, j + 1 + n), 0) < 0 THEN NoEscape(j, FALSE)
  ELSE Escaped(HexUntilBrace(SubSeq(t, j + 2, j + 1 + n), 0), j + 3 + n)

\* scanCharEscape, t[j] being the character after the backslash: octal, \xHH,
\* \x{H..}, \uHHHH, \cX, the named control characters, and any other
\* character for itself
CharEscape(t, j) ==
  IF IsOctal(t[j])
  THEN OctalEscape(t, j, IF RunOf(t, j, IsOctal) > 3 THEN 3 ELSE RunOf(t, j, IsOctal))
  ELSE IF t[j] = 120 THEN
    IF j < Len(t) /\ t[j + 1] = 123 THEN BraceEscape(t, j, RunOf(t, j + 2, IsHex))
    ELSE IF j + 2 <= Len(t) /\ IsHex(t[j + 1]) /\ IsHex(t[j + 2])
    THEN Escaped(BaseValue(SubSeq(t, j + 1, j + 2), 16), j + 3)
    ELSE NoEscape(j, FALSE)
  ELSE IF t[j] = 117 THEN
    IF j + 4 <= Len(t) /\ \A k \in (j + 1)..(j + 4) : IsHex(t[k])
    THEN Escaped(BaseValue(SubSeq(t, j + 1, j + 4), 16), j + 5)
    ELSE NoEscape(j, FALSE)
  ELSE IF t[j] = 99 THEN
    IF j >= Len(t) THEN NoEscape(j, FALSE)
    ELSE ControlEscape(j, IF t[j + 1] >= 97 /\ t[j + 1] <= 122 THEN t[j + 1] - 32
                          ELSE t[j + 1])
  ELSE Escaped(CASE t[j] = 97 -> 7 [] t[j] = 98 -> 8 [] t[j] = 101 -> 27
                 [] t[j] = 102 -> 12 [] t[j] = 110 -> 10 [] t[j] = 114 -> 13
                 [] t[j] = 116 -> 9 [] t[j] = 118 -> 11 [] OTHER -> t[j], j + 1)

\* one character of a class at position j of t, written plainly or escaped
ClassChar(t, j) ==
  IF t[j] = 92 /\ j < Len(t) THEN CharEscape(t, j + 1) ELSE Escaped(t[j], j + 1)

RECURSIVE ClassItems(_, _, _, _)
\* scanCharSet at the [: of position j of t, the name of n word characters
\* being written from position q on: the runes of the name are added, and
\* the [ is a character of the class unless :] closes the name
ClassName(t, j, ranges, negate, q, n) ==
  IF SubSeq(t, q, q + n - 1) \notin DOMAIN NamedASCII THEN Fail(j)
  ELSE IF q + n + 1 <= Len(t) /\ t[q + n] = 58 /\ t[q + n + 1] = 93
  THEN ClassItems(t, q + n + 2, FALSE,
                  ranges \cup NamedRanges(SubSeq(t, q, q + n - 1), negate))
  ELSE ClassItems(t, j + 1, FALSE,
                  ranges \cup NamedRanges(SubSeq(t, q, q + n - 1), negate)
                    \cup {<<91, 91>>})

\* scanCharSet at the [: of position j of t: [:name:] or [:^name:]
ClassPosix(t, j, ranges) ==
  IF j + 3 <= Len(t) /\ t[j + 2] = 94
  THEN ClassName(t, j, ranges, TRUE, j + 3, RunOf(t, j + 3, IsWordChar))
  ELSE ClassName(t, j, ranges, FALSE, j + 2, RunOf(t, j + 2, IsWordChar))

\* scanCharSet at the end hi of a range that starts with lo, the end being
\* written at position k of t
ClassRangeEnd(t, k, ranges, lo, hi) ==
  IF hi.err THEN AsFail(hi)
  ELSE IF lo.c > hi.c THEN Fail(k)
  ELSE ClassItems(t, hi.pos, FALSE, ranges \cup {<<lo.c, hi.c>>})

\* scanCharSet after the - of a range that starts with lo, at position k of t
ClassRange(t, k, ranges, lo) ==
  IF t[k] = 92 /\ k < Len(t) /\ t[k + 1] \in ClassEscapes \cup {112, 80} THEN Fail(k)
  ELSE IF t[k] = 92 /\ k < Len(t) /\ t[k + 1] = 45 THEN Beyond(k)
  ELSE IF t[k] = 91 THEN Beyond(k)
  ELSE ClassRangeEnd(t, k, ranges, lo, ClassChar(t, k))

\* scanCharSet after the character lo read at position j of t: the start of
\* a range, or a character of the class
ClassAfterChar(t, j, first, ranges, lo) ==
  IF lo.err THEN AsFail(lo)
  ELSE IF lo.pos + 1 <= Len(t) /\ t[lo.pos] = 45 /\ t[lo.pos + 1] # 93
  THEN ClassRange(t, lo.pos + 1, ranges, lo)
  ELSE IF t[j] = 45 /\ lo.pos <= Len(t) /\ t[lo.pos] = 91 /\ ~first THEN Beyond(j)
  ELSE ClassItems(t, lo.pos, FALSE, ranges \cup {<<lo.c, lo.c>>})

\* scanCharSet from position j of t, after [ or [^: single characters, ranges
\* lo-hi, the classes \d \w \s \D \W \S and the names [:name:], up to the ]
\* that closes the class; a ] that comes first stands for itself
ClassItems(t, j, first, ranges) ==
  IF j > Len(t) THEN Fail(j)
  ELSE IF t[j] = 93 /\ ~first
  THEN [err |-> FALSE, beyond |-> FALSE, ranges |-> ranges, pos |-> j + 1]
  ELSE IF t[j] = 92 /\ j < Len(t) /\ t[j + 1] \in ClassEscapes
  THEN ClassItems(t, j + 2, FALSE, ranges \cup ClassOf(t[j + 1]))
  ELSE IF t[j] = 92 /\ j < Len(t) /\ t[j + 1] \in {112, 80} THEN Beyond(j)
  ELSE IF t[j] = 92 /\ j < Len(t) /\ t[j + 1] = 45
  THEN ClassItems(t, j + 2, FALSE, ranges \cup {<<45, 45>>})
  ELSE IF t[j] = 91 /\ j < Len(t) /\ t[j + 1] = 58 THEN ClassPosix(t, j, ranges)
  ELSE ClassAfterChar(t, j, first, ranges, ClassChar(t, j))

\* the node of the class whose items r were read
ClassNode(neg, r) ==
  IF r.err THEN AsFail(r)
  ELSE Scanned([t |-> "class", neg |-> neg, rs |-> r.ranges], r.pos)

\* [ at position i of t: a character class, negated after [^
ScanCharSet(t, i) ==
  IF i < Len(t) /\ t[i + 1] = 94
  THEN ClassNode(TRUE, ClassItems(t, i + 2, TRUE, {}))
  ELSE ClassNode(FALSE, ClassItems(t, i + 1, TRUE, {}))

\* the literal of the escape e
EscapeNode(e) ==
  IF e.err THEN AsFail(e) ELSE Scanned([t |-> "lit", c |-> e.c], e.pos)

\* scanBasicBackslash at the \k of position i of t: \k<name> or \k'name', the
\* reference to the group of that name, which starts at position j, n being
\* the word characters from j on and close the character that ends the name
NameRef(t, i, j, close, n) ==
  IF j > Len(t) THEN Fail(i)
  ELSE IF t[j] >= 128 \/ IsDecimal(t[j]) THEN Beyond(i)
  ELSE IF n = 0 \/ j + n > Len(t) THEN Fail(i)
  ELSE IF t[j + n] = close
  THEN Scanned([t |-> "ref", num |-> 0, name |-> SubSeq(t, j, j + n - 1)], j + n + 1)
  ELSE IF t[j + n] >= 128 THEN Beyond(i)
  ELSE Fail(i)

\* scanBackslash at position i of t, c being the character after the
\* backslash; \1 ... \9 is the reference to the group of that number
BackslashChar(t, i, c) ==
  IF c = 98 THEN Scanned([t |-> "wordb", neg |-> FALSE], i + 2)
  ELSE IF c = 66 THEN Scanned([t |-> "wordb", neg |-> TRUE], i + 2)
  ELSE IF c \in {65, 71} THEN Scanned([t |-> "bol"], i + 2)
  ELSE IF c \in {90, 122} THEN Scanned([t |-> "end"], i + 2)
  ELSE IF c \in ClassEscapes
  THEN Scanned([t |-> "class", neg |-> FALSE, rs |-> ClassOf(c)], i + 2)
  ELSE IF c \in {112, 80} THEN Beyond(i)
  ELSE IF c >= 49 /\ c <= 57 THEN
    IF i + 2 <= Len(t) /\ IsDecimal(t[i + 2]) THEN Beyond(i)
    ELSE Scanned([t |-> "ref", num |-> c - 48, name |-> <<>>], i + 2)
  ELSE IF c = 107 THEN
    IF i + 2 > Len(t) \/ t[i + 2] \notin {60, 39} THEN Fail(i)
    ELSE NameRef(t, i, i + 3, IF t[i + 2] = 60 THEN 62 ELSE 39,
                 RunOf(t, i + 3, IsWordByte))
  ELSE IF /\ c \in {60, 39} /\ i + 2 <= Len(t)
          /\ (IsWordByte(t[i + 2]) \/ t[i + 2] >= 128) THEN Beyond(i)
  ELSE EscapeNode(CharEscape(t, i + 1))

\* scanBackslash at position i of t: an anchor, a class, a reference or an
\* escaped character
ScanBackslash(t, i) ==
  IF i >= Len(t) THEN Fail(i) ELSE BackslashChar(t, i, t[i + 1])

\* isTrueQuantifier after the n digits that follow a { at position i of t:
\* } or a comma, digits or none, and }
IsTrueCount(t, i, n) ==
  /\ n > 0 /\ i + 1 + n <= Len(t)
  /\ \/ t[i + 1 + n] = 125
     \/ /\ t[i + 1 + n] = 44
        /\ i + n + 2 + RunOf(t, i + n + 2, IsDecimal) <= Len(t)
        /\ t[i + n + 2 + RunOf(t, i + n + 2, IsDecimal)] = 125

\* isTrueQuantifier at position i of t: * + ? or {n} {n,} {n,m}
IsTrueQuantifier(t, i) ==
  /\ i <= Len(t)
  /\ IF t[i] # 123 THEN t[i] \in {42, 43, 63}
     ELSE IsTrueCount(t, i, RunOf(t, i + 1, IsDecimal))

RECURSIVE ScanDecimal(_, _)
\* scanDecimal on the digits d after the value n: the number, or -2 when it
\* is more than the greatest 32-bit integer
ScanDecimal(d, n) ==
  IF d = <<>> THEN n
  ELSE IF n > 214748364 \/ (n = 214748364 /\ d[1] - 48 > 7) THEN -2
  ELSE ScanDecimal(Tail(d), n * 10 + (d[1] - 48))

RECURSIVE SkipBlank(_, _)
\* scanBlank at position i of t: the position after the comments (?#...)
\* written there, 0 when a comment has no ) to end it
SkipBlank(t, i) ==
  IF i + 2 > Len(t) \/ t[i] # 40 \/ t[i + 1] # 63 \/ t[i + 2] # 35 THEN i
  ELSE IF \A q \in i..Len(t) : t[q] # 41 THEN 0
  ELSE SkipBlank(t, (CHOOSE q \in i..Len(t) :
                       t[q] = 41 /\ \A r \in i..(q - 1) : t[r] # 41) + 1)

\* a quantifier of least count min and greatest count max (-1 for none) that
\* ends before position after of t, with the lazy mark ? that may follow it
\* and the comments before the mark
Quantifier(t, min, max, after) ==
  [err |-> \/ min = -2 \/ max = -2 \/ (max >= 0 /\ min > max)
           \/ SkipBlank(t, after) = 0,
   min |-> min, max |-> max,
   pos |-> IF SkipBlank(t, after) = 0 THEN after
           ELSE IF SkipBlank(t, after) <= Len(t) /\ t[SkipBlank(t, after)] = 63
           THEN SkipBlank(t, after) + 1
           ELSE SkipBlank(t, after)]

\* {n,} and {n,m} at position i of t, n digits before the comma and m after
CountRange(t, i, n, m) ==
  Quantifier(t, ScanDecimal(SubSeq(t, i + 1, i + n), 0),
             IF m > 0 THEN ScanDecimal(SubSeq(t, i + n + 2, i + n + 1 + m), 0) ELSE -1,
             i + n + m + 3)

\* {n} at position i of t, d being the number its n digits write
CountExact(t, i, n, d) == Quantifier(t, d, d, i + n + 2)

\* the quantifier in braces at position i of t, n digits after the {
CountQuantifier(t, i, n) ==
  IF t[i + 1 + n] = 125 THEN CountExact(t, i, n, ScanDecimal(SubSeq(t, i + 1, i + n), 0))
  ELSE CountRange(t, i, n, RunOf(t, i + n + 2, IsDecimal))

\* the quantifier at position i of t: its least and greatest counts (-1 for
\* no greatest count), and the position after it and after its lazy mark
ScanQuantifier(t, i) ==
  CASE t[i] = 42 -> Quantifier(t, 0, -1, i + 1)
    [] t[i] = 43 -> Quantifier(t, 1, -1, i + 1)
    [] t[i] = 63 -> Quantifier(t, 0, 1, i + 1)
    [] OTHER -> CountQuantifier(t, i, RunOf(t, i + 1, IsDecimal))

\* the node that repeats n
Repeat(n, min, max) ==
  IF min = 0 /\ max = -1 THEN [t |-> "star", n |-> n]
  ELSE [t |-> "rep", n |-> n, min |-> min, max |-> max]

\* a group of kind k whose body starts at position p: "cap" is a group that
\* captures, "group" one that does not
GroupKind(k, p) ==
  [err |-> FALSE, beyond |-> FALSE, kind |-> k, pos |-> p, name |-> <<>>]

\* a capturing group of the given name whose body starts at position p
NamedGroup(name, p) ==
  [err |-> FALSE, beyond |-> FALSE, kind |-> "cap", pos |-> p, name |-> name]

\* scanGroupOpen at the name of a group, at position j of t, n being the
\* word characters from j on and close the character that ends the name
GroupName(t, j, close, n) ==
  IF j > Len(t) THEN Fail(j)
  ELSE IF t[j] >= 128 \/ IsDecimal(t[j]) \/ t[j] = 45 THEN Beyond(j)
  ELSE IF n = 0 \/ j + n > Len(t) THEN Fail(j)
  ELSE IF t[j + n] = close THEN NamedGroup(SubSeq(t, j, j + n - 1), j + n + 1)
  ELSE IF t[j + n] >= 128 \/ t[j + n] = 45 THEN Beyond(j)
  ELSE Fail(j)

\* scanGroupOpen after the (? of position i of t, k being the next character
GroupOption(t, i, k) ==
  IF k = 58 THEN GroupKind("group", i + 3)
  ELSE IF k = 61 THEN GroupKind("ahead", i + 3)
  ELSE IF k = 33 THEN GroupKind("nahead", i + 3)
  ELSE IF k = 60 THEN
    IF i + 3 > Len(t) THEN Fail(i)
    ELSE IF t[i + 3] = 61 THEN GroupKind("behind", i + 4)
    ELSE IF t[i + 3] = 33 THEN GroupKind("nbehind", i + 4)
    ELSE GroupName(t, i + 3, 62, RunOf(t, i + 3, IsWordByte))
  ELSE IF k = 39 THEN
    IF i + 3 > Len(t) \/ t[i + 3] \in {61, 33} THEN Fail(i)
    ELSE GroupName(t, i + 3, 39, RunOf(t, i + 3, IsWordByte))
  ELSE IF k = 80 THEN
    IF i + 5 <= Len(t) /\ t[i + 3] = 60
    THEN GroupName(t, i + 4, 62, RunOf(t, i + 4, IsWordByte))
    ELSE Fail(i)
  ELSE IF \/ k \in {62, 40, 35, 45, 43} \/ k >= 128
          \/ (k >= 65 /\ k <= 90) \/ (k >= 97 /\ k <= 122) THEN Beyond(i)
  ELSE Fail(i)

\* scanGroupOpen at the ( of position i of t: the kind of the group and the
\* position its body starts at
GroupHead(t, i) ==
  IF i + 1 > Len(t) \/ t[i + 1] # 63 \/ (i + 2 <= Len(t) /\ t[i + 2] = 41)
  THEN GroupKind("cap", i + 1)
  ELSE IF i + 2 > Len(t) THEN Fail(i)
  ELSE GroupOption(t, i, t[i + 2])

RECURSIVE ScanAlt(_, _, _), ScanSeq(_, _, _)
\* the group opened at position i of t with the head h, whose body g was
\* read up to its ); a capturing group is known by the position of its (
\* and by its name
GroupNode(t, i, h, g) ==
  IF g.err THEN g
  ELSE IF g.pos > Len(t) THEN Fail(i)
  ELSE IF h.kind = "group" THEN Scanned(g.node, g.pos + 1)
  ELSE IF h.kind = "cap"
  THEN Scanned([t |-> "cap", n |-> g.node, at |-> i, name |-> h.name], g.pos + 1)
  ELSE Scanned([t |-> "look", n |-> g.node,
                ahead |-> h.kind \in {"ahead", "nahead"},
                neg |-> h.kind \in {"nahead", "nbehind"}], g.pos + 1)

\* the group opened at position i of t with the head h
ScanGroup(t, i, h) ==
  IF h.err THEN AsFail(h) ELSE GroupNode(t, i, h, ScanAlt(t, h.pos, <<>>))

\* one unit at position i of t: an escape, a group, a class, an anchor, a dot
\* or a literal
ScanUnit(t, i) ==
  IF t[i] = 92 THEN ScanBackslash(t, i)
  ELSE IF t[i] = 40 THEN ScanGroup(t, i, GroupHead(t, i))
  ELSE IF t[i] = 91 THEN ScanCharSet(t, i)
  ELSE IF IsTrueQuantifier(t, i) THEN Fail(i)
  ELSE IF t[i] = 94 THEN Scanned([t |-> "bol"], i + 1)
  ELSE IF t[i] = 36 THEN Scanned([t |-> "end"], i + 1)
  ELSE IF t[i] = 46 THEN Scanned([t |-> "any"], i + 1)
  ELSE Scanned([t |-> "lit", c |-> t[i]], i + 1)

\* the unit with the quantifier q read after it
Quantified(t, acc, unit, q) ==
  IF q.err THEN Fail(unit.pos)
  ELSE ScanSeq(t, q.pos, Append(acc, Repeat(unit.node, q.min, q.max)))

\* the rest of a branch after one unit and the comments that follow it up to
\* position p (0: a comment without end), where a quantifier may stand
AfterBlank(t, acc, unit, p) ==
  IF p = 0 THEN Fail(unit.pos)
  ELSE IF IsTrueQuantifier(t, p) THEN Quantified(t, acc, unit, ScanQuantifier(t, p))
  ELSE ScanSeq(t, p, Append(acc, unit.node))

\* the rest of a branch after one unit; after a character written plainly
\* the outcome of scanBlank is not looked at, and a comment without end runs
\* to the end of the text
AfterUnit(t, acc, unit, plain) ==
  IF unit.err THEN unit
  ELSE AfterBlank(t, acc, unit,
                  IF plain /\ SkipBlank(t, unit.pos) = 0 THEN Len(t) + 1
                  ELSE SkipBlank(t, unit.pos))

\* is the character at position i of t one of a run of plain characters
IsPlain(t, i) == t[i] \notin {92, 40, 91, 94, 36, 46}

\* a branch from position p of t on, after the comments written from
\* position i on
SeqAt(t, i, p, acc) ==
  IF p = 0 THEN Fail(i)
  ELSE IF p > Len(t) \/ t[p] = 124 \/ t[p] = 41
  THEN Scanned([t |-> "seq", ns |-> acc], p)
  ELSE AfterUnit(t, acc, ScanUnit(t, p), IsPlain(t, p))

\* one branch of an alternation: units, each with the quantifier after it,
\* up to the end, a | or a )
ScanSeq(t, i, acc) == SeqAt(t, i, SkipBlank(t, i), acc)

\* the rest of an alternation after its branch b
AfterBranch(t, acc, b) ==
  IF b.err THEN b
  ELSE IF b.pos <= Len(t) /\ t[b.pos] = 124
  THEN ScanAlt(t, b.pos + 1, Append(acc, b.node))
  ELSE Scanned([t |-> "alt", ns |-> Append(acc, b.node)], b.pos)

\* the branches of an alternation, up to the end or the ) that closes it
ScanAlt(t, i, acc) == AfterBranch(t, acc, ScanSeq(t, i, <<>>))

RECURSIVE Groups(_)
\* the capturing groups of node, each as <<position of its (, name>>, the
\* name of a group written without one being empty
Groups(node) ==
  CASE node.t = "cap" -> {<<node.at, node.name>>} \cup Groups(node.n)
    [] node.t \in {"seq", "alt"} -> UNION {Groups(node.ns[k]) : k \in 1..Len(node.ns)}
    [] node.t \in {"star", "rep", "look"} -> Groups(node.n)
    [] OTHER -> {}

RECURSIVE Refs(_)
\* the references of node, each as <<number, name>>
Refs(node) ==
  CASE node.t = "ref" -> {<<node.num, node.name>>}
    [] node.t \in {"seq", "alt"} -> UNION {Refs(node.ns[k]) : k \in 1..Len(node.ns)}
    [] node.t \in {"star", "rep", "look", "cap"} -> Refs(node.n)
    [] OTHER -> {}

\* where the name is first written among the groups gs
FirstAt(gs, name) ==
  CHOOSE a \in {g[1] : g \in {h \in gs : h[2] = name}} :
    \A g \in gs : g[2] = name => a <= g[1]

\* the number of the group g among the groups gs of an expression: the groups
\* without a name count from 1 in the order of their (, and the names follow
\* them in the order each is first written
Slot(gs, g) ==
  IF g[2] = <<>> THEN Cardinality({h \in gs : h[2] = <<>> /\ h[1] <= g[1]})
  ELSE Cardinality({h \in gs : h[2] = <<>>})
         + Cardinality({h[2] : h \in {x \in gs : x[2] # <<>> /\ x[1] <= FirstAt(gs, g[2])}})

\* the number of the group the reference r = <<number, name>> stands for
\* among the groups gs, 0 when the expression has no such group
RefSlot(gs, r) ==
  IF r[2] = <<>>
  THEN IF r[1] <= Cardinality({Slot(gs, g) : g \in gs}) THEN r[1] ELSE 0
  ELSE IF \E g \in gs : g[2] = r[2] THEN Slot(gs, <<0, r[2]>>) ELSE 0

RECURSIVE Tangled(_, _, _)
\* does a lookaround of node hold a group whose number is in used
Tangled(node, gs, used) ==
  CASE node.t = "look" -> \E g \in Groups(node.n) : Slot(gs, g) \in used
    [] node.t \in {"seq", "alt"} -> \E k \in 1..Len(node.ns) : Tangled(node.ns[k], gs, used)
    [] node.t \in {"star", "rep", "cap"} -> Tangled(node.n, gs, used)
    [] OTHER -> FALSE

RECURSIVE Numbered(_, _, _), NumberedFrom(_, _, _, _)
\* node with each group and each reference given its number among the groups
\* gs; a group no reference stands for leaves nothing a match depends on and
\* is replaced by its body
Numbered(node, gs, used) ==
  CASE node.t = "ref" ->
         [t |-> "ref", slot |-> RefSlot(gs, <<node.num, node.name>>)]
    [] node.t = "cap" ->
         IF Slot(gs, <<node.at, node.name>>) \in used
         THEN [t |-> "cap", n |-> Numbered(node.n, gs, used),
               slot |-> Slot(gs, <<node.at, node.name>>)]
         ELSE Numbered(node.n, gs, used)
    [] node.t \in {"seq", "alt"} ->
         [t |-> node.t, ns |-> NumberedFrom(node.ns, 1, gs, used)]
    [] node.t \in {"star", "rep", "look"} ->
         [node EXCEPT !.n = Numbered(node.n, gs, used)]
    [] OTHER -> node

NumberedFrom(ns, k, gs, used) ==
  IF k > Len(ns) THEN <<>>
  ELSE <<Numbered(ns[k], gs, used)>> \o NumberedFrom(ns, k + 1, gs, used)

\* the expression read as node, with the groups gs and the references rs:
\* a reference to a group the expression does not have is an error
Resolved(node, gs, rs) ==
  IF \E r \in rs : RefSlot(gs, r) = 0
  THEN [err |-> TRUE, reg |-> NoReg, beyond |-> FALSE]
  ELSE IF Tangled(node, gs, {RefSlot(gs, r) : r \in rs})
  THEN [err |-> TRUE, reg |-> NoReg, beyond |-> TRUE]
  ELSE [err |-> FALSE, beyond |-> FALSE,
        reg |-> Numbered(node, gs, {RefSlot(gs, r) : r \in rs})]

\* the outcome of the scan r of a whole text
Compiled(text, r) ==
  IF r.err THEN [err |-> TRUE, reg |-> NoReg, beyond |-> r.beyond]
  ELSE IF r.pos <= Len(text) THEN [err |-> TRUE, reg |-> NoReg, beyond |-> FALSE]
  ELSE Resolved(r.node, Groups(r.node), Refs(r.node))

\* regexp2.Compile(text, regexp2.RE2) on the runes of text: the expression, or
\* an error (a quantifier with nothing to repeat, unbalanced parentheses, an
\* unterminated class, a range in reverse order, a reference to a group that
\* is not there, ...); beyond tells that the text uses a construct the model
\* does not read
Compile(text) == Compiled(text, ScanAlt(text, 1, <<>>))

InClass(node, r) ==
  (\E x \in node.rs : x[1] <= r /\ r <= x[2]) # node.neg

\* a match under way is a state <<p, c>>: the position p it has reached in
\* the runes and the captures c made on the way, each as <<group, from, to>>
\* for the runes from + 1 .. to; the states that begin a match at a position
\* of P
Starts(P) == {<<p, {}>> : p \in P}

\* the captures c after the group slot has captured the runes from + 1 .. to
Captured(c, slot, from, to) == {x \in c : x[1] # slot} \cup {<<slot, from, to>>}

\* do the runes from + 1 .. to of s stand again from position p on
Repeats(s, from, to, p) ==
  /\ p + to - from <= Len(s)
  /\ SubSeq(s, from + 1, to) = SubSeq(s, p + 1, p + to - from)

RECURSIVE Step(_, _, _), StepSeq(_, _, _, _), StepStar(_, _, _), StepRep(_, _, _, _, _)
\* the states in which node can end on s after a state of P
Step(node, s, P) ==
  CASE node.t = "lit" ->
         {<<st[1] + 1, st[2]>> : st \in {x \in P : x[1] < Len(s) /\ s[x[1] + 1] = node.c}}
    [] node.t = "any" ->
         {<<st[1] + 1, st[2]>> : st \in {x \in P : x[1] < Len(s) /\ s[x[1] + 1] # 10}}
    [] node.t = "class" ->
         {<<st[1] + 1, st[2]>> : st \in {x \in P : x[1] < Len(s) /\ InClass(node, s[x[1] + 1])}}
    [] node.t = "bol" -> {st \in P : st[1] = 0}
    [] node.t = "end" -> {st \in P : st[1] = Len(s)}
    [] node.t = "wordb" ->
         {st \in P : ((st[1] >= 1 /\ IsWordChar(s[st[1]]))
                        # (st[1] < Len(s) /\ IsWordChar(s[st[1] + 1]))) # node.neg}
    [] node.t = "look" ->
         {st \in P : (IF node.ahead THEN Step(node.n, s, {st}) # {}
                      ELSE \E q \in 0..st[1] :
                             \E r \in Step(node.n, s, {<<q, st[2]>>}) : r[1] = st[1])
                       # node.neg}
    [] node.t = "cap" ->
         UNION {{<<r[1], Captured(r[2], node.slot, st[1], r[1])>> :
                   r \in Step(node.n, s, {st})} : st \in P}
    [] node.t = "ref" ->
         UNION {{<<st[1] + x[3] - x[2], st[2]>> :
                   x \in {y \in st[2] : y[1] = node.slot /\ Repeats(s, y[2], y[3], st[1])}} :
                st \in P}
    [] node.t = "seq" -> StepSeq(node.ns, 1, s, P)
    [] node.t = "alt" -> UNION {Step(node.ns[k], s, P) : k \in 1..Len(node.ns)}
    [] node.t = "star" -> StepStar(node.n, s, P)
    [] node.t = "rep" -> StepRep(node.n, s, P, node.min, node.max)
    [] OTHER -> {}

StepSeq(ns, k, s, P) ==
  IF k > Len(ns) \/ P = {} THEN P ELSE StepSeq(ns, k + 1, s, Step(ns[k], s, P))

\* the states one pass of n reaches on s from the states of F, each with
\* the mark of a pass that moved on, one that ends further than it began
Passes(n, s, F) ==
  UNION {{<<r, r[1] > q>> : r \in Step(n, s, {st \in F : st[1] = q})} :
           q \in {st[1] : st \in F}}

RECURSIVE Loop(_, _, _, _)
\* the states after the passes T of n and after up to left more passes
LoopOn(n, s, T, left) ==
  {x[1] : x \in T} \cup Loop(n, s, {x[1] : x \in {y \in T : y[2]}}, left)

\* the states after one to left (-1: any number of) passes of n from the
\* states of F; once the least count is reached, a pass that did not move on
\* is followed by no other
Loop(n, s, F, left) ==
  IF F = {} \/ left = 0 THEN {}
  ELSE LoopOn(n, s, Passes(n, s, F), IF left = -1 THEN -1 ELSE left - 1)

StepStar(n, s, P) == P \cup Loop(n, s, P, -1)

\* at least min and at most max (-1: any number of) repetitions of n
StepRep(n, s, P, min, max) ==
  IF P = {} THEN P
  ELSE IF min > 1
  THEN StepRep(n, s, Step(n, s, P), min - 1, IF max = -1 THEN -1 ELSE max - 1)
  ELSE IF min = 1
  THEN LoopOn(n, s, Passes(n, s, P), IF max = -1 THEN -1 ELSE max - 1)
  ELSE P \cup Loop(n, s, P, max)

\* Regexp.MatchString within its time budget: does reg match somewhere in s
FindMatch(reg, s) ==
  LET r == Runes(s) IN Step(reg, r, Starts(0..Len(r))) # {}

\* an evaluation over budget reported as a plain non-match
MatchStringSilent(reg, s, overBudget) ==
  [matched |-> ~overBudget /\ FindMatch(reg, s), err |-> "nil"]

\* Regexp.MatchString(needle) with MatchTimeout = regexp2MatchTimeout: the
\* evaluation either completes or runs over its budget, which is an error
MatchString(reg, s, overBudget) ==
  IF overBudget THEN [matched |-> FALSE, err |-> "timeout"]
  ELSE [matched |-> FindMatch(reg, s), err |-> "nil"]

RECURSIVE WildcardText(_, _)
WildcardText(pattern, i) ==
  IF i > Len(pattern) THEN <<>>
  ELSE (IF pattern[i] = 42 THEN <<46, 42>> ELSE QuoteMeta(<<pattern[i]>>))
         \o WildcardText(pattern, i + 1)

\* CompileWildcardRegex: ^, then for each BYTE c of the pattern either .* or
\* QuoteMeta(string(c)), the rune whose code point is c, then $.  The text
\* holds plain characters, escaped characters and .* only, which Compile
\* reads all
CompileWildcardRegex(pattern) ==
  Compile(<<94>> \o WildcardText(pattern, 1) \o <<36>>)

(***************************************************************************)
(* The LRU cache (hashicorp/golang-lru) behind RegexpMatcher.              *)
(***************************************************************************)
\* NewRegexpMatcher(size): the capacity of the cache
Capacity(size) == IF size <= 0 THEN 512 ELSE size

CacheKeys(c) == {c[i].key : i \in 1..Len(c)}

IndexOf(c, k) == CHOOSE i \in 1..Len(c) : c[i].key = k

Without(c, i) == SubSeq(c, 1, i - 1) \o SubSeq(c, i + 1, Len(c))

\* a lookup that ignores the key and serves the most recent entry
getAny(c, pattern) ==
  IF c # <<>> THEN [reg |-> c[1].reg, cache |-> c] ELSE [reg |-> NoReg, cache |-> c]

\* a lookup that leaves the order of the entries as it is
getInPlace(c, pattern) ==
  IF pattern \in CacheKeys(c)
  THEN [reg |-> c[IndexOf(c, pattern)].reg, cache |-> c]
  ELSE [reg |-> NoReg, cache |-> c]

\* RegexpMatcher.get: the cached expression, now the most recently used
get(c, pattern) ==
  IF pattern \in CacheKeys(c)
  THEN LET i == IndexOf(c, pattern)
       IN [reg |-> c[i].reg, cache |-> <<c[i]>> \o Without(c, i)]
  ELSE [reg |-> NoReg, cache |-> c]

\* an insert that does not look for an entry of the same pattern
setBlind(c, pattern, reg) ==
  LET grown == <<[key |-> pattern, reg |-> reg]>> \o c
  IN IF Len(grown) > Capacity(CacheSize)
     THEN SubSeq(grown, 1, Capacity(CacheSize)) ELSE grown

\* an insert that leaves the cache as it is
setNever(c, pattern, reg) == c

\* RegexpMatcher.set: Cache.Add puts the entry first and evicts the last one
\* when the cache is over its capacity
set(c, pattern, reg) ==
  LET e == [key |-> pattern, reg |-> reg]
  IN IF pattern \in CacheKeys(c) THEN <<e>> \o Without(c, IndexOf(c, pattern))
     ELSE LET grown == <<e>> \o c
          IN IF Len(grown) > Capacity(CacheSize)
             THEN SubSeq(grown, 1, Capacity(CacheSize)) ELSE grown

(***************************************************************************)
(* RegexpMatcher.Matches.                                                  *)
(***************************************************************************)
\* a comparison that accepts a candidate the element is a prefix of
SimpleMatchPrefix(h, needle) ==
  Len(h) <= Len(needle) /\ SubSeq(needle, 1, Len(h)) = h

\* the comparison of an element without wildcard
SimpleMatch(h, needle) == h = needle

Returned(ok, err, c, hits, compiled) ==
  [ok |-> ok, err |-> err, cache |-> c, hits |-> hits, compiled |-> compiled]

RECURSIVE matches(_, _, _, _, _, _, _)
\* RegexpMatcher.matches from element i on, run with no other goroutine on
\* the matcher; over holds the elements whose evaluation runs over budget;
\* hits and compiled list the elements served from the cache and those
\* compiled and inserted so far
matches(c, needle, haystack, over, i, hits, compiled) ==
  IF i > Len(haystack) THEN Returned(FALSE, "nil", c, hits, compiled)
  ELSE
    LET h == haystack[i] IN
    IF ~ContainsStar(h) THEN
      IF SimpleMatch(h, needle) THEN Returned(TRUE, "nil", c, hits, compiled)
      ELSE matches(c, needle, haystack, over, i + 1, hits, compiled)
    ELSE
      LET g == get(c, h) IN
      IF g.reg # NoReg THEN
        LET m == MatchString(g.reg, needle, h \in over)
            hits2 == Append(hits, h)
        IN IF m.err # "nil" THEN Returned(FALSE, m.err, g.cache, hits2, compiled)
           ELSE IF m.matched THEN Returned(TRUE, "nil", g.cache, hits2, compiled)
           ELSE matches(g.cache, needle, haystack, over, i + 1, hits2, compiled)
      ELSE
        LET cr == CompileWildcardRegex(h) IN
        IF cr.err THEN Returned(FALSE, "compile", g.cache, hits, compiled)
        ELSE
          LET c2 == set(g.cache, h, cr.reg)
              m == MatchString(cr.reg, needle, h \in over)
              compiled2 == Append(compiled, h)
          IN IF m.err # "nil" THEN Returned(FALSE, m.err, c2, hits, compiled2)
             ELSE IF m.matched THEN Returned(TRUE, "nil", c2, hits, compiled2)
             ELSE matches(c2, needle, haystack, over, i + 1, hits, compiled2)

\* RegexpMatcher.Matches(key1, key2) on a matcher whose cache is c, run with
\* no other goroutine on the matcher
Matches(c, k1, k2, over) == matches(c, k1, Split(k2), over, 1, <<>>, <<>>)

\* a MustMatch that answers true when Matches returns an error
MustMatchTrueOnError(r) == IF r.err # "nil" THEN TRUE ELSE r.ok

\* RegexpMatcher.MustMatch, from what its call of Matches returned
MustMatch(r) == IF r.err # "nil" THEN FALSE ELSE r.ok

\* the elements of a pattern list: its maximal comma-free stretches
Elements(k2) ==
  {SubSeq(k2, i, j) : <<i, j>> \in
     {x \in (1..Len(k2) + 1) \X (0..Len(k2)) :
        /\ x[1] <= x[2] + 1
        /\ \A k \in x[1]..x[2] : k2[k] # 44
        /\ x[1] = 1 \/ k2[x[1] - 1] = 44
        /\ x[2] = Len(k2) \/ k2[x[2] + 1] = 44}}

WildcardElems(k2) == {e \in Elements(k2) : ContainsStar(e)}

(***************************************************************************)
(* Matches and MustMatch calls on one RegexpMatcher, step by step: each    *)
(* goroutine goes through the loop of matches one element at a time.  The  *)
(* cache guards Get and Add with its mutex; compiling and matching happen  *)
(* outside it, so the steps of calls that overlap interleave.              *)
(***************************************************************************)
Free == 0

\* an unlock that leaves the mutex with the caller
UnlockNever(holder) == holder

\* the deferred c.lock.Unlock() of Cache.Get and Cache.Add
Unlock(holder) == Free

\* the recency history after pattern was looked up with success or inserted
Touch(history, pattern) ==
  <<pattern>> \o SelectSeq(history, LAMBDA k : k # pattern)

\* a goroutine that has made no call yet
NoCall ==
  [pc |-> "idle", fn |-> "none", calls |-> 0, needle |-> <<>>, key2 |-> <<>>,
   slow |-> {}, i |-> 0, reg |-> NoReg, ok |-> FALSE, err |-> "nil",
   hits |-> <<>>, compiled |-> <<>>, must |-> FALSE]

\* a goroutine in its call number n, of fn(needle, k2), at the head of the
\* loop of matches and about to look at the first element; over holds the
\* wildcard elements of k2 whose evaluation against needle, if it happens in
\* this call, exceeds the 250 ms budget
CallerAt(fn, needle, k2, over, n) ==
  [NoCall EXCEPT !.pc = "next", !.fn = fn, !.calls = n, !.needle = needle,
                 !.key2 = k2, !.slow = over, !.i = 1]

\* a return that answers true next to an error
CallerDoneTrueOnError(c, ok, err) ==
  [c EXCEPT !.pc = "done", !.ok = ok \/ err # "nil", !.err = err, !.reg = NoReg,
            !.must = c.fn = "MustMatch" /\ (ok \/ err # "nil")]

\* matches returns (ok, err), and so does Matches; MustMatch then returns
\* what it makes of the two
CallerDone(c, ok, err) ==
  [c EXCEPT !.pc = "done", !.ok = ok, !.err = err, !.reg = NoReg,
            !.must = c.fn = "MustMatch" /\ MustMatch([ok |-> ok, err |-> err])]

CallerNext(c) == [c EXCEPT !.pc = "next", !.i = c.i + 1, !.reg = NoReg]

\* the element the caller is at
Elem(c) == Split(c.key2)[c.i]

\* the goroutine id, in no call, calls fn(k1, k2): strings.Split(key2, ",")
\* and the first turn of the loop of matches are ahead of it
Call(id, fn, k1, k2, over) ==
  /\ callers[id].pc \in {"idle", "done"}
  /\ callers' = [callers EXCEPT ![id] =
       CallerAt(fn, k1, k2, over, callers[id].calls + 1)]
  /\ UNCHANGED <<cache, lock, recent>>

\* the loop head: the list is exhausted, or the element has no wildcard and is
\* compared, or it has one and the cache is consulted
LoopHead(id) ==
  LET c == callers[id] IN
  /\ c.pc = "next"
  /\ callers' = [callers EXCEPT ![id] =
       IF c.i > Len(Split(c.key2)) THEN CallerDone(c, FALSE, "nil")
       ELSE IF ~ContainsStar(Elem(c))
            THEN IF SimpleMatch(Elem(c), c.needle) THEN CallerDone(c, TRUE, "nil")
                 ELSE CallerNext(c)
       ELSE [c EXCEPT !.pc = "get"]]
  /\ UNCHANGED <<cache, lock, recent>>

\* Cache.Get and Cache.Add take the mutex
LockCache(id) ==
  LET c == callers[id] IN
  /\ c.pc \in {"get", "set"}
  /\ lock = Free
  /\ lock' = id
  /\ callers' = [callers EXCEPT ![id] = [c EXCEPT !.pc = IF c.pc = "get" THEN "inGet" ELSE "inSet"]]
  /\ UNCHANGED <<cache, recent>>

\* m.get(h) under the mutex
CacheGet(id) ==
  LET c == callers[id]
      g == get(cache, Elem(c))
  IN /\ c.pc = "inGet"
     /\ cache' = g.cache
     /\ lock' = Unlock(id)
     /\ recent' = IF g.reg # NoReg THEN Touch(recent, Elem(c)) ELSE recent
     /\ callers' = [callers EXCEPT ![id] =
          IF g.reg # NoReg
          THEN [c EXCEPT !.reg = g.reg, !.pc = "match", !.hits = Append(c.hits, Elem(c))]
          ELSE [c EXCEPT !.pc = "compile"]]

\* CompileWildcardRegex(h), holding nothing
CompileStep(id) ==
  LET c == callers[id]
      r == CompileWildcardRegex(Elem(c))
  IN /\ c.pc = "compile"
     /\ callers' = [callers EXCEPT ![id] =
          IF r.err THEN CallerDone(c, FALSE, "compile")
          ELSE [c EXCEPT !.reg = r.reg, !.pc = "set",
                         !.compiled = Append(c.compiled, Elem(c))]]
     /\ UNCHANGED <<cache, lock, recent>>

\* m.set(h, reg) under the mutex
CacheSet(id) ==
  LET c == callers[id] IN
  /\ c.pc = "inSet"
  /\ cache' = set(cache, Elem(c), c.reg)
  /\ lock' = Unlock(id)
  /\ recent' = Touch(recent, Elem(c))
  /\ callers' = [callers EXCEPT ![id] = [c EXCEPT !.pc = "match"]]

\* reg.MatchString(needle), and the return or the next turn of the loop
MatchStep(id) ==
  LET c == callers[id]
      m == MatchString(c.reg, c.needle, Elem(c) \in c.slow)
  IN /\ c.pc = "match"
     /\ callers' = [callers EXCEPT ![id] =
          IF m.err # "nil" THEN CallerDone(c, FALSE, m.err)
          ELSE IF m.matched THEN CallerDone(c, TRUE, "nil")
          ELSE CallerNext(c)]
     /\ UNCHANGED <<cache, lock, recent>>

\* the frame of a step of the matcher
MatcherFrame ==
  /\ UNCHANGED pc
  /\ UNCHANGED templateVars
  /\ UNCHANGED condVars
  /\ UNCHANGED unionVars
  /\ UNCHANGED runnerVars
  /\ UNCHANGED idgenVars

(***************************************************************************)
(* runner.RunServices: one goroutine per service around an unbuffered      *)
(* error channel, step by step.                                            *)
(***************************************************************************)
\* the nil error
NoErr == 0

\* the error service k's Run returns when it fails
ErrOf(k) == k

NoMain == [pc |-> "idle", started |-> 0]

NoRret == [returned |-> FALSE, err |-> NoErr]

\* a service goroutine not started yet
Unborn == [pc |-> "unborn", runs |-> 0, err |-> NoErr, reported |-> FALSE]

\* r.errorHandler(service, err): NewRunner's default returns err, the one
\* of LogOnError logs it and returns nil
errorHandler(h, err) == IF h = "log" THEN NoErr ELSE err

\* go func(ctx, service) {...}(ctx, service) for the next service; after the
\* last one RunServices blocks in its select
StartService ==
  /\ main.pc = "spawn"
  /\ IF main.started < Len(svc)
     THEN /\ svc' = [svc EXCEPT ![main.started + 1].pc = "loop"]
          /\ main' = [main EXCEPT !.started = main.started + 1]
     ELSE /\ main' = [main EXCEPT !.pc = "select"]
          /\ svc' = svc
  /\ UNCHANGED <<handler, ctxDone, errChan, rret>>

\* case <-ctx.Done() of the select of RunServices: it goes on to return nil
MainCtxDone ==
  /\ main.pc = "select"
  /\ ctxDone
  /\ main' = [main EXCEPT !.pc = "close"]
  /\ UNCHANGED <<handler, svc, ctxDone, errChan, rret>>

\* the first deferred call to run: close(errChan)
MainClose ==
  /\ main.pc = "close"
  /\ errChan' = "closed"
  /\ main' = [main EXCEPT !.pc = "cancel"]
  /\ UNCHANGED <<handler, svc, ctxDone, rret>>

\* the second deferred call, the safe cancel: if ctx.Err() == nil { cancel() };
\* then RunServices has returned
MainCancel ==
  /\ main.pc = "cancel"
  /\ ctxDone' = TRUE
  /\ main' = [main EXCEPT !.pc = "returned"]
  /\ rret' = [rret EXCEPT !.returned = TRUE]
  /\ UNCHANGED <<handler, svc, errChan>>

\* the caller cancels the context it gave to RunServices
ParentCancel ==
  /\ main.pc # "idle"
  /\ ~ctxDone
  /\ ctxDone' = TRUE
  /\ UNCHANGED <<handler, main, svc, errChan, rret>>

\* the head of the goroutine's loop: select on ctx.Done() with a default
ServiceLoop(k) ==
  /\ svc[k].pc = "loop"
  /\ svc' = [svc EXCEPT ![k].pc = IF ctxDone THEN "returned" ELSE "run"]
  /\ UNCHANGED <<handler, main, ctxDone, errChan, rret>>

\* service.Run(ctx) returns, with nil or with the service's error, and the
\* error handler is applied to an error
ServiceRun(k) ==
  /\ svc[k].pc = "run"
  /\ svc[k].runs < MaxRuns
  /\ \E failed \in BOOLEAN :
       LET err == IF failed THEN errorHandler(handler, ErrOf(k)) ELSE NoErr
       IN svc' = [svc EXCEPT ![k] =
            [@ EXCEPT !.runs = @ + 1, !.err = err,
                      !.pc = IF err # NoErr THEN "check" ELSE "sleep"]]
  /\ UNCHANGED <<handler, main, ctxDone, errChan, rret>>

\* if ctx.Err() == nil: the goroutine goes on to push its error, or returns
ServiceCheck(k) ==
  /\ svc[k].pc = "check"
  /\ svc' = [svc EXCEPT ![k] =
       IF ctxDone THEN [@ EXCEPT !.pc = "returned"]
       ELSE [@ EXCEPT !.pc = "send", !.reported = TRUE]]
  /\ UNCHANGED <<handler, main, ctxDone, errChan, rret>>

\* select { case errChan <- err: default: } and return: a send on the closed
\* channel panics; a send with RunServices waiting in its select, the context
\* not done, hands it the error; any other send is dropped.  Once ctx.Done()
\* is closed the select of RunServices is taken by that case, so the send
\* finds no receiver and the default case runs.
ServiceSend(k) ==
  /\ svc[k].pc = "send"
  /\ IF errChan = "closed"
     THEN /\ svc' = [svc EXCEPT ![k].pc = "panicked"]
          /\ UNCHANGED <<main, rret>>
     ELSE IF main.pc = "select" /\ ~ctxDone
     THEN /\ svc' = [svc EXCEPT ![k].pc = "returned"]
          /\ main' = [main EXCEPT !.pc = "close"]
          /\ rret' = [rret EXCEPT !.err = svc[k].err]
     ELSE /\ svc' = [svc EXCEPT ![k].pc = "returned"]
          /\ UNCHANGED <<main, rret>>
  /\ UNCHANGED <<handler, ctxDone, errChan>>

\* time.Sleep(r.errorInterval) is over
ServiceSleep(k) ==
  /\ svc[k].pc = "sleep"
  /\ svc' = [svc EXCEPT ![k].pc = "loop"]
  /\ UNCHANGED <<handler, main, ctxDone, errChan, rret>>

(***************************************************************************)
(* The template compiler CompileRegex.                                     *)
(***************************************************************************)
\* Go's s[lo:hi]
Slice(s, lo, hi) == SubSeq(s, lo + 1, hi)

\* a final check that lets an open delimiter pass
LevelLeftOpenNever(level) == FALSE

\* the check after the loop of delimiterIndices: if level != 0
LevelLeftOpen(level) == level # 0

RECURSIVE delimiterScan(_, _, _, _, _, _, _)
\* the loop of delimiterIndices at byte i (from 0), then its final check
delimiterScan(s, ds, de, i, level, idx, idxs) ==
  IF i >= Len(s) THEN
    IF LevelLeftOpen(level) THEN [err |-> TRUE, idxs |-> <<>>] ELSE [err |-> FALSE, idxs |-> idxs]
  ELSE IF s[i + 1] = ds THEN
    delimiterScan(s, ds, de, i + 1, level + 1, IF level + 1 = 1 THEN i ELSE idx, idxs)
  ELSE IF s[i + 1] = de THEN
    IF level - 1 = 0 THEN delimiterScan(s, ds, de, i + 1, 0, idx, idxs \o <<idx, i + 1>>)
    ELSE IF level - 1 < 0 THEN [err |-> TRUE, idxs |-> <<>>]
    ELSE delimiterScan(s, ds, de, i + 1, level - 1, idx, idxs)
  ELSE delimiterScan(s, ds, de, i + 1, level, idx, idxs)

\* delimiterIndices: the first-level delimiter indices, or an error
delimiterIndices(s, ds, de) == delimiterScan(s, ds, de, 0, 0, 0, <<>>)

\* a span joined to the pattern without the group around the raw expression
SpanTextBare(raw, patt) == QuoteMeta(raw) \o patt

\* fmt.Fprintf(pattern, "%s(%s)", regexp.QuoteMeta(raw), patt)
SpanText(raw, patt) == QuoteMeta(raw) \o <<40>> \o patt \o <<41>>

TemplateResult(reg, err, compiles) == [reg |-> reg, err |-> err, compiles |-> compiles]

RECURSIVE CompileSpans(_, _, _, _, _, _)
\* the loop of CompileRegex over the index pairs, then the full expression;
\* compiles counts the calls of regexp2.Compile.  The outcome is "unread", which
\* tells nothing of what CompileRegex returns, for a template with a
\* construct Compile does not read
CompileSpans(t, idxs, i, end, pattern, compiles) ==
  IF i < Len(idxs) THEN
    LET raw == Slice(t, end, idxs[i + 1])
        end2 == idxs[i + 2]
        patt == Slice(t, idxs[i + 1] + 1, end2 - 1)
        one == Compile(Runes(<<94>> \o patt \o <<36>>))
    IN IF one.beyond THEN TemplateResult(NoReg, "unread", compiles + 1)
       ELSE IF one.err THEN TemplateResult(NoReg, "compile", compiles + 1)
       ELSE CompileSpans(t, idxs, i + 2, end2, pattern \o SpanText(raw, patt),
                         compiles + 1)
  ELSE
    LET full == Compile(Runes(pattern \o QuoteMeta(Slice(t, end, Len(t))) \o <<36>>))
    IN IF full.beyond THEN TemplateResult(NoReg, "unread", compiles + 1)
       ELSE IF full.err THEN TemplateResult(NoReg, "compile", compiles + 1)
       ELSE TemplateResult(full.reg, "nil", compiles + 1)

\* CompileRegex(tpl, delimiterStart, delimiterEnd)
CompileRegex(t, ds, de) ==
  LET d == delimiterIndices(t, ds, de)
  IN IF d.err THEN TemplateResult(NoReg, "unbalanced", 0)
     ELSE CompileSpans(t, d.idxs, 0, 0, <<94>>, 0)

NoTres == [reg |-> NoReg, err |-> "nil", compiles |-> 0, matched |-> FALSE, merr |-> "nil"]

(***************************************************************************)
(* The parsers behind the condition operators: time.Parse(time.RFC3339, s),*)
(* net.ParseIP and net.ParseCIDR.                                          *)
(***************************************************************************)
IsDigit(b) == b >= 48 /\ b <= 57

\* the bytes of s from position i (1-based) to the end
From(s, i) == SubSeq(s, i, Len(s))

RECURSIVE DigitsValue(_)
\* the number written by a string of digits
DigitsValue(d) ==
  IF d = <<>> THEN 0 ELSE DigitsValue(SubSeq(d, 1, Len(d) - 1)) * 10 + (d[Len(d)] - 48)

AllDigits(d) == \A i \in 1..Len(d) : IsDigit(d[i])

\* how many digits s starts with
LeadingDigits(s) ==
  IF \E i \in 1..Len(s) : ~IsDigit(s[i])
  THEN (CHOOSE i \in 1..Len(s) : ~IsDigit(s[i]) /\ \A j \in 1..(i - 1) : IsDigit(s[j])) - 1
  ELSE Len(s)

IsLeap(y) == y % 4 = 0 /\ (y % 100 # 0 \/ y % 400 = 0)

DaysIn(m, y) ==
  IF m = 2 THEN (IF IsLeap(y) THEN 29 ELSE 28)
  ELSE IF m \in {4, 6, 9, 11} THEN 30 ELSE 31

RECURSIVE DaysBeforeMonth(_, _)
DaysBeforeMonth(m, y) == IF m <= 1 THEN 0 ELSE DaysBeforeMonth(m - 1, y) + DaysIn(m - 1, y)

\* days from 0001-01-01 to the given date
DaysSinceYearOne(y, m, d) ==
  LET p == y - 1
  IN p * 365 + p \div 4 - p \div 100 + p \div 400 + DaysBeforeMonth(m, y) + (d - 1)

\* the zero time.Time, which time.Parse returns with its error
ZeroTime == [day |-> 0, sec |-> 0, nsec |-> 0]

\* an instant that takes the clock reading as it stands, whatever the offset
InstantLocal(y, mo, d, h, mi, sec, nsec, off) ==
  [day |-> DaysSinceYearOne(y, mo, d), sec |-> h * 3600 + mi * 60 + sec, nsec |-> nsec]

\* an instant from a civil date, a time of day and a zone offset in seconds
Instant(y, mo, d, h, mi, sec, nsec, off) ==
  LET local == h * 3600 + mi * 60 + sec - off
      shift == IF local >= 0 THEN local \div 86400 ELSE -((86399 - local) \div 86400)
  IN [day |-> DaysSinceYearOne(y, mo, d) + shift,
      sec |-> local - shift * 86400, nsec |-> nsec]

RECURSIVE Pow10(_)
Pow10(n) == IF n = 0 THEN 1 ELSE 10 * Pow10(n - 1)

\* the zone of an RFC3339 time: Z, or a sign, two digits, a colon, two digits
ParseZone(z) ==
  IF z = <<90>> THEN [ok |-> TRUE, off |-> 0]
  ELSE IF /\ Len(z) = 6 /\ z[1] \in {43, 45} /\ z[4] = 58
          /\ AllDigits(SubSeq(z, 2, 3)) /\ AllDigits(SubSeq(z, 5, 6))
       THEN LET hh == DigitsValue(SubSeq(z, 2, 3))
                mm == DigitsValue(SubSeq(z, 5, 6))
            IN IF hh > 24 \/ mm > 60 THEN [ok |-> FALSE, off |-> 0]
               ELSE [ok |-> TRUE,
                     off |-> (IF z[1] = 45 THEN -1 ELSE 1) * (hh * 3600 + mm * 60)]
  ELSE [ok |-> FALSE, off |-> 0]

\* what follows the seconds: an optional fraction (. or , and digits, read to
\* nanoseconds), then the zone
ParseFractionAndZone(r) ==
  IF Len(r) >= 2 /\ r[1] \in {46, 44} /\ IsDigit(r[2])
  THEN LET n == LeadingDigits(From(r, 2))
           kept == IF n > 9 THEN 9 ELSE n
           z == ParseZone(From(r, 2 + n))
       IN [ok |-> z.ok, off |-> z.off,
           nsec |-> DigitsValue(SubSeq(r, 2, 1 + kept)) * Pow10(9 - kept)]
  ELSE LET z == ParseZone(r) IN [ok |-> z.ok, off |-> z.off, nsec |-> 0]

\* time.Parse(time.RFC3339, s), layout 2006-01-02T15:04:05Z07:00: the instant,
\* or the zero time when s does not parse (the operators drop the error)
ParseRFC3339(s) ==
  IF ~(/\ Len(s) >= 12
       /\ AllDigits(SubSeq(s, 1, 4)) /\ s[5] = 45
       /\ AllDigits(SubSeq(s, 6, 7)) /\ s[8] = 45
       /\ AllDigits(SubSeq(s, 9, 10)) /\ s[11] = 84)
  THEN [ok |-> FALSE, t |-> ZeroTime]
  ELSE
    LET hd == IF LeadingDigits(From(s, 12)) >= 2 THEN 2 ELSE LeadingDigits(From(s, 12))
        r == From(s, 12 + hd)
    IN IF ~(/\ hd >= 1 /\ Len(r) >= 6
            /\ r[1] = 58 /\ AllDigits(SubSeq(r, 2, 3))
            /\ r[4] = 58 /\ AllDigits(SubSeq(r, 5, 6)))
       THEN [ok |-> FALSE, t |-> ZeroTime]
       ELSE
         LET y == DigitsValue(SubSeq(s, 1, 4))
             mo == DigitsValue(SubSeq(s, 6, 7))
             d == DigitsValue(SubSeq(s, 9, 10))
             h == DigitsValue(SubSeq(s, 12, 11 + hd))
             mi == DigitsValue(SubSeq(r, 2, 3))
             sec == DigitsValue(SubSeq(r, 5, 6))
             fz == ParseFractionAndZone(From(r, 7))
         IN IF \/ ~fz.ok \/ mo < 1 \/ mo > 12 \/ h >= 24 \/ mi >= 60 \/ sec >= 60
               \/ d < 1 \/ d > DaysIn(mo, y)
            THEN [ok |-> FALSE, t |-> ZeroTime]
            ELSE [ok |-> TRUE, t |-> Instant(y, mo, d, h, mi, sec, fz.nsec, fz.off)]

\* Time.Equal, Time.Before, Time.After
TimeEqual(a, b) == a = b
TimeBefore(a, b) ==
  \/ a.day < b.day
  \/ a.day = b.day /\ a.sec < b.sec
  \/ a.day = b.day /\ a.sec = b.sec /\ a.nsec < b.nsec
TimeAfter(a, b) == TimeBefore(b, a)

NoIP == <<>>

RECURSIVE DottedFields(_, _, _)
\* the stretches of s between dots
DottedFields(s, i, cur) ==
  IF i > Len(s) THEN <<cur>>
  ELSE IF s[i] = 46 THEN <<cur>> \o DottedFields(s, i + 1, <<>>)
  ELSE DottedFields(s, i + 1, Append(cur, s[i]))

\* netip parseIPv4Fields: four fields of digits, none empty, none with a
\* leading zero, each at most 255: the four octets, or <<>>
ParseIPv4Fields(s) ==
  LET Octets(f) ==
        IF /\ Len(f) = 4
           /\ \A k \in 1..4 :
                LET d == f[k]
                IN /\ Len(d) >= 1 /\ Len(d) <= 3 /\ AllDigits(d)
                   /\ (Len(d) > 1 => d[1] # 48)
                   /\ DigitsValue(d) <= 255
        THEN [k \in 1..4 |-> DigitsValue(f[k])]
        ELSE <<>>
  IN Octets(DottedFields(s, 1, <<>>))

Zeros(n) == [k \in 1..n |-> 0]

\* the 16-byte form of an IPv4 address, ::ffff:a.b.c.d
V4InV6(o) == Zeros(10) \o <<255, 255>> \o o

\* the two bytes of a 16-bit group, the high one first
Word16(acc) == <<acc \div 256, acc % 256>>

NoAddr == [ok |-> FALSE, v4 |-> FALSE, ip |-> NoIP]

\* the end of netip parseIPv6: the text is used up, and an address short of
\* 16 bytes takes zeros at its ::, which must stand for at least one group
FinishIPv6(s, p, ip, ellipsis) ==
  IF p <= Len(s) THEN NoAddr
  ELSE IF Len(ip) < 16
  THEN IF ellipsis < 0 THEN NoAddr
       ELSE [ok |-> TRUE, v4 |-> FALSE,
             ip |-> SubSeq(ip, 1, ellipsis) \o Zeros(16 - Len(ip))
                      \o SubSeq(ip, ellipsis + 1, Len(ip))]
  ELSE IF ellipsis >= 0 THEN NoAddr
  ELSE [ok |-> TRUE, v4 |-> FALSE, ip |-> ip]

RECURSIVE GroupsIPv6(_, _, _, _)
\* netip parseIPv6 at the dotted IPv4 text that ends the address: its
\* octets o after the bytes ip
DottedIPv6(s, ip, ellipsis, o) ==
  IF (ellipsis < 0 /\ Len(ip) # 12) \/ Len(ip) + 4 > 16 \/ o = <<>>
  THEN NoAddr
  ELSE FinishIPv6(s, Len(s) + 1, ip \o o, ellipsis)

\* netip parseIPv6 after a group that ends before position q of s and leaves
\* the bytes ip: the end of the text, a colon and the next group, or ::
AfterGroupIPv6(s, q, ip, ellipsis) ==
  IF q > Len(s) THEN FinishIPv6(s, q, ip, ellipsis)
  ELSE IF s[q] # 58 \/ q = Len(s) THEN NoAddr
  ELSE IF s[q + 1] # 58 THEN GroupsIPv6(s, q + 1, ip, ellipsis)
  ELSE IF ellipsis >= 0 THEN NoAddr
  ELSE IF q + 2 > Len(s) THEN FinishIPv6(s, q + 2, ip, Len(ip))
  ELSE GroupsIPv6(s, q + 2, ip, Len(ip))

\* netip parseIPv6 at a group of n hexadecimal digits from position p of s
GroupIPv6(s, p, ip, ellipsis, n) ==
  IF n = 0 \/ n > 4 THEN NoAddr
  ELSE IF p + n <= Len(s) /\ s[p + n] = 46
  THEN DottedIPv6(s, ip, ellipsis, ParseIPv4Fields(From(s, p)))
  ELSE AfterGroupIPv6(s, p + n, ip \o Word16(BaseValue(SubSeq(s, p, p + n - 1), 16)),
                      ellipsis)

\* the loop of netip parseIPv6 from position p of s, with the bytes ip read
\* so far and the place of the :: read so far (-1 for none): groups of one to
\* four hexadecimal digits between colons, or dotted IPv4 in the last four
\* bytes
GroupsIPv6(s, p, ip, ellipsis) ==
  IF Len(ip) >= 16 THEN FinishIPv6(s, p, ip, ellipsis)
  ELSE GroupIPv6(s, p, ip, ellipsis, RunOf(s, p, IsHex))

\* netip parseIPv6 on a text without zone
ParseIPv6(s) ==
  IF Len(s) >= 2 /\ s[1] = 58 /\ s[2] = 58
  THEN IF Len(s) = 2 THEN [ok |-> TRUE, v4 |-> FALSE, ip |-> Zeros(16)]
       ELSE GroupsIPv6(s, 3, <<>>, 0)
  ELSE GroupsIPv6(s, 1, <<>>, -1)

\* netip.ParseAddr, for the callers that refuse a zone: the first of . : %
\* in the text decides between the IPv4 and the IPv6 form, and a text with a
\* % gives no address
ParseAddr(s) ==
  LET marks == {i \in 1..Len(s) : s[i] \in {46, 58, 37}}
      IPv4(o) == IF o = <<>> THEN NoAddr
                 ELSE [ok |-> TRUE, v4 |-> TRUE, ip |-> V4InV6(o)]
  IN IF (\A i \in 1..Len(s) : s[i] \notin {46, 58}) \/ \E i \in 1..Len(s) : s[i] = 37
     THEN NoAddr
     ELSE IF s[CHOOSE i \in marks : \A j \in marks : i <= j] = 46
     THEN IPv4(ParseIPv4Fields(s))
     ELSE ParseIPv6(s)

\* net.ParseIP: the address in its 16-byte form, or NoIP (nil)
ParseIP(s) == ParseAddr(s).ip

\* IP.To4: the four bytes of an IPv4 address, or the address itself
To4(ip) ==
  IF Len(ip) = 16 /\ SubSeq(ip, 1, 12) = Zeros(10) \o <<255, 255>>
  THEN SubSeq(ip, 13, 16) ELSE ip

RECURSIVE Pow2(_)
Pow2(n) == IF n = 0 THEN 1 ELSE 2 * Pow2(n - 1)

\* the bits of octet k that a prefix of n bits covers
PrefixBits(n, k) ==
  LET left == n - 8 * (k - 1) IN IF left <= 0 THEN 0 ELSE IF left >= 8 THEN 8 ELSE left

\* IP.Mask with CIDRMask(n, 8 * Len(ip)): the first n bits of ip, zeros after
MaskIP(ip, n) ==
  [k \in 1..Len(ip) |->
     LET drop == Pow2(8 - PrefixBits(n, k)) IN (ip[k] \div drop) * drop]

RECURSIVE Dtoi(_, _, _)
\* net dtoi from position i of s with value n so far: the decimal number s
\* starts with, as large a number as 0xFFFFFF (and more) being a failure
Dtoi(s, i, n) ==
  IF i > Len(s) \/ ~IsDigit(s[i]) THEN [n |-> n, i |-> i - 1, ok |-> i > 1]
  ELSE IF n * 10 + (s[i] - 48) >= 16777215 THEN [n |-> 16777215, i |-> i - 1, ok |-> FALSE]
  ELSE Dtoi(s, i + 1, n * 10 + (s[i] - 48))

NoNet == [ok |-> FALSE, ip |-> NoIP, bits |-> 0]

\* net.ParseCIDR: address/bits, with at most 32 bits after an IPv4 address
\* and at most 128 after an IPv6 one; the network keeps the address as 4
\* bytes (IPv4) or 16 bytes, masked
ParseCIDR(s) ==
  LET \* the address a before the slash and the number d after it
      Network(a, d, mask) ==
        IF ~a.ok \/ ~d.ok \/ d.i # Len(mask) \/ d.n > (IF a.v4 THEN 32 ELSE 128)
        THEN NoNet
        ELSE [ok |-> TRUE, bits |-> d.n,
              ip |-> IF a.v4 THEN MaskIP(To4(a.ip), d.n) ELSE MaskIP(a.ip, d.n)]
      Halves(addr, mask) == Network(ParseAddr(addr), Dtoi(mask, 1, 0), mask)
      Slash(i) == Halves(SubSeq(s, 1, i - 1), From(s, i + 1))
  IN IF ~\E i \in 1..Len(s) : s[i] = 47 THEN NoNet
     ELSE Slash(CHOOSE j \in 1..Len(s) : s[j] = 47 /\ \A k \in 1..(j - 1) : s[k] # 47)

\* IPNet.Contains: the address, as 4 bytes when it is an IPv4 one, has the
\* length of the network number and agrees with it on the prefix bits
NetContains(net, ip) ==
  LET Same(x, nn, bits) == Len(x) = Len(nn) /\ MaskIP(x, bits) = MaskIP(nn, bits)
      Both(x, nn) ==
        Same(x, nn, IF Len(net.ip) = 16 /\ Len(nn) = 4 THEN net.bits - 96 ELSE net.bits)
  IN Both(To4(ip), To4(net.ip))

(***************************************************************************)
(* The union request authenticator.  A handler is what it answers to the   *)
(* request: whether its response and its error are non-nil, and its ok.    *)
(* The response and the error of the i-th handler are named i; 0 is nil.   *)
(***************************************************************************)
NilResponse == 0

\* the error value nil, one handler's own error, and errors.Join(errlist...),
\* which is nil when errlist holds nothing
NilError == [joined |-> FALSE, errs |-> <<>>]
OwnError(i) == [joined |-> FALSE, errs |-> <<i>>]
Join(errlist) == IF errlist = <<>> THEN NilError ELSE [joined |-> TRUE, errs |-> errlist]

\* currAuthRequestHandler.AuthenticateRequest(req) of the i-th handler
Answer(hs, i) ==
  [resp |-> IF hs[i].resp THEN i ELSE NilResponse,
   ok |-> hs[i].ok,
   err |-> IF hs[i].err THEN OwnError(i) ELSE NilError]

Returns(resp, ok, err, calls) == [resp |-> resp, ok |-> ok, err |-> err, calls |-> calls]

RECURSIVE AuthenticateRequest(_, _, _, _)
\* unionAuthRequestHandler.AuthenticateRequest from the i-th handler on
AuthenticateRequest(hs, failOnError, i, errlist) ==
  IF i > Len(hs) THEN Returns(NilResponse, FALSE, Join(errlist), Len(hs))
  ELSE LET a == Answer(hs, i) IN
       IF a.err # NilError
       THEN IF failOnError THEN Returns(a.resp, a.ok, a.err, i)
            ELSE AuthenticateRequest(hs, failOnError, i + 1, Append(errlist, i))
       ELSE IF a.ok THEN Returns(a.resp, a.ok, a.err, i)
       ELSE AuthenticateRequest(hs, failOnError, i + 1, errlist)

\* a constructor that wraps every chain, a chain of one handler too
NewAlwaysWraps(hs) == AuthenticateRequest(hs, FALSE, 1, <<>>)

\* union.New(handlers...).AuthenticateRequest(req)
New(hs) ==
  IF Len(hs) = 1
  THEN LET a == Answer(hs, 1) IN Returns(a.resp, a.ok, a.err, 1)
  ELSE AuthenticateRequest(hs, FALSE, 1, <<>>)

NoUres == Returns(NilResponse, FALSE, NilError, 0)

(***************************************************************************)
(* The id generator (utils/idgen).  The generator is unset until its first *)
(* use; sonyflake then starts or fails to start.  The 64-bit ids are       *)
(* modelled by the numbers up to MaxId, each one greater than the last.    *)
(***************************************************************************)
\* strconv.FormatUint(id, 10)
RECURSIVE FormatUint(_)
FormatUint(n) ==
  IF n < 10 THEN <<48 + n>> ELSE Append(FormatUint(n \div 10), 48 + (n % 10))

\* sonyflake.NewSonyflake(settings) gives a generator or nil: the zero
\* settings start when the machine has a private address to take its machine
\* id from, settings of the caller start or not by what they hold
ZeroSettings == "zero"

Settings == {ZeroSettings, "starts", "fails"}

NewSonyflake(settings, g) ==
  IF settings = ZeroSettings THEN g.startable ELSE settings = "starts"

\* Initialize: _once.Do runs its function on the first call only; when
\* NewSonyflake gives nil the function panics, the Once is spent all the
\* same and _sf is nil ever after
Initialize(settings, g) ==
  IF g.state # "unset" THEN g
  ELSE [g EXCEPT !.state = IF NewSonyflake(settings, g) THEN "ready" ELSE "broken"]

\* getSonyflake: Initialize with the zero settings when _sf is nil
getSonyflake(g) == IF g.state = "ready" THEN g ELSE Initialize(ZeroSettings, g)

IdReturn(num, out, err, panic, g) ==
  [num |-> num, out |-> out, err |-> err, panic |-> panic, sf |-> g]

\* NextID, id being what sonyflake's NextID gives and fails whether it
\* reports an error instead; on a nil generator the call panics
NextID(g, id, fails) ==
  IF getSonyflake(g).state = "broken" THEN IdReturn(0, <<>>, "nil", TRUE, getSonyflake(g))
  ELSE IF fails THEN IdReturn(0, <<>>, "over the time limit", FALSE, getSonyflake(g))
  ELSE IdReturn(id, <<>>, "nil", FALSE, [getSonyflake(g) EXCEPT !.last = id])

\* the Must forms panic on an error
MustOf(r) == IF r.err # "nil" THEN [r EXCEPT !.panic = TRUE] ELSE r

MustNextID(g, id, fails) == MustOf(NextID(g, id, fails))

StringOf(r) ==
  IF r.panic \/ r.err # "nil" THEN [r EXCEPT !.num = 0]
  ELSE [r EXCEPT !.num = 0, !.out = FormatUint(r.num)]

NextIDString(g, id, fails) == StringOf(NextID(g, id, fails))

MustNextIDString(g, id, fails) == MustOf(NextIDString(g, id, fails))

\* fmt.Sprintf("%s:%s", prefix, id)
WithPrefix(prefix, id) == prefix \o <<58>> \o id

Prefixed(prefix, r) ==
  IF r.panic \/ r.err # "nil" THEN r
  ELSE IF prefix = <<>> THEN r
  ELSE [r EXCEPT !.out = WithPrefix(prefix, r.out)]

NextIDStringWithPrefix(g, prefix, id, fails) == Prefixed(prefix, NextIDString(g, id, fails))

MustNextIDStringWithPrefix(g, prefix, id, fails) ==
  MustOf(NextIDStringWithPrefix(g, prefix, id, fails))

NoSf == [state |-> "unset", startable |-> TRUE, last |-> 0]
NoIdres == [fn |-> "none", prefix |-> <<>>, id |-> 0, num |-> 0, out |-> <<>>,
            err |-> "nil", panic |-> FALSE]

(***************************************************************************)
(* Sample texts of the condition evaluator, as byte strings.               *)
(***************************************************************************)
\* "10.0.0.1"
IP_10_0_0_1 ==
  <<49, 48, 46, 48, 46, 48, 46, 49>>
\* "127.0.0.1"
IP_127_0_0_1 ==
  <<49, 50, 55, 46, 48, 46, 48, 46, 49>>
\* "192.168.1.1"
IP_192_168_1_1 ==
  <<49, 57, 50, 46, 49, 54, 56, 46, 49, 46, 49>>
\* "10.0.0.0/8"
CIDR_10_8 ==
  <<49, 48, 46, 48, 46, 48, 46, 48, 47, 56>>
\* "2024-01-10T00:00:00Z"
T_2024_01_10 ==
  <<50, 48, 50, 52, 45, 48, 49, 45, 49, 48, 84, 48, 48, 58, 48, 48, 58, 48, 48, 90>>
\* "2024-01-12T06:59:00Z"
T_2024_01_12 ==
  <<50, 48, 50, 52, 45, 48, 49, 45, 49, 50, 84, 48, 54, 58, 53, 57, 58, 48, 48, 90>>
\* "2024-01-05T00:00:00Z"
T_2024_01_05 ==
  <<50, 48, 50, 52, 45, 48, 49, 45, 48, 53, 84, 48, 48, 58, 48, 48, 58, 48, 48, 90>>

\* "192.168.234.50"
IP_192_168_234_50 ==
  <<49, 57, 50, 46, 49, 54, 56, 46, 50, 51, 52, 46, 53, 48>>
\* "192.168.234.0/24"
CIDR_192_168_234_24 ==
  <<49, 57, 50, 46, 49, 54, 56, 46, 50, 51, 52, 46, 48, 47, 50, 52>>
\* "203.0.113.9"
IP_203_0_113_9 ==
  <<50, 48, 51, 46, 48, 46, 49, 49, 51, 46, 57>>
\* "::ffff:10.0.0.1", the address 10.0.0.1 written as an IPv6 one
IP6_mapped_10_0_0_1 ==
  <<58, 58, 102, 102, 102, 102, 58, 49, 48, 46, 48, 46, 48, 46, 49>>
\* "not-an-ip"
TXT_not_an_ip ==
  <<110, 111, 116, 45, 97, 110, 45, 105, 112>>
\* "2024-01-10T02:00:00+02:00"
T_2024_01_10_plus2 ==
  <<50, 48, 50, 52, 45, 48, 49, 45, 49, 48, 84, 48, 50, 58, 48, 48, 58, 48, 48, 43, 48, 50, 58, 48, 48>>
\* "2024-01-10"
TXT_date_only ==
  <<50, 48, 50, 52, 45, 48, 49, 45, 49, 48>>
\* "admin"
TXT_admin ==
  <<97, 100, 109, 105, 110>>
\* "Admin"
TXT_Admin ==
  <<65, 100, 109, 105, 110>>
\* "dmi"
TXT_dmi ==
  <<100, 109, 105>>
\* "a*n"
TXT_a_star_n ==
  <<97, 42, 110>>
\* "*"
TXT_star ==
  <<42>>
\* "10"
TXT_10 ==
  <<49, 48>>
\* "3"
TXT_3 ==
  <<51>>
\* "5"
TXT_5 ==
  <<53>>
\* "true"
TXT_true ==
  <<116, 114, 117, 101>>
\* "false"
TXT_false ==
  <<102, 97, 108, 115, 101>>

(***************************************************************************)
(* The condition operators and ConditionMather.                            *)
(***************************************************************************)
StringOps == {"StringEquals", "StringNotEquals", "StringEqualsIgnoreCase",
              "StringNotEqualsIgnoreCase", "StringLike", "StringNotLike"}
NumericOps == {"NumericEquals", "NumericNotEquals", "NumericLessThan",
               "NumericLessThanEquals", "NumericGreaterThan",
               "NumericGreaterThanEquals"}
DateOps == {"DateEquals", "DateNotEquals", "DateLessThan", "DateLessThanEquals",
            "DateGreaterThan", "DateGreaterThanEquals"}
IPOps == {"IPAddress", "NotIPAddress"}

\* the keys of conditionOperatorFuncMap
KnownOperators == StringOps \cup NumericOps \cup DateOps \cup {"Bool"} \cup IPOps

\* the runes that are not the least of their orbit under unicode.SimpleFold,
\* as <<first, last, stride, d>>: each rune first, first + stride, ... up to
\* last is in the orbit whose least rune is d below it.  The orbits are the
\* classes of runes with one simple case folding (CaseFolding.txt, statuses C
\* and S, of Unicode 15.0.0); U+0130 and U+0131 have none and fold with
\* themselves only
CaseOrbits ==
  <<
     <<97, 122, 1, 32>>, <<224, 246, 1, 32>>, <<248, 254, 1, 32>>, <<257, 303, 2, 1>>, <<307, 311, 2, 1>>,
     <<314, 328, 2, 1>>, <<331, 375, 2, 1>>, <<376, 376, 1, 121>>, <<378, 382, 2, 1>>, <<383, 383, 1, 300>>,
     <<387, 389, 2, 1>>, <<392, 392, 1, 1>>, <<396, 396, 1, 1>>, <<402, 402, 1, 1>>, <<409, 409, 1, 1>>,
     <<417, 421, 2, 1>>, <<424, 424, 1, 1>>, <<429, 429, 1, 1>>, <<432, 432, 1, 1>>, <<436, 438, 2, 1>>,
     <<441, 441, 1, 1>>, <<445, 445, 1, 1>>, <<453, 453, 1, 1>>, <<454, 454, 1, 2>>, <<456, 456, 1, 1>>,
     <<457, 457, 1, 2>>, <<459, 459, 1, 1>>, <<460, 460, 1, 2>>, <<462, 476, 2, 1>>, <<477, 477, 1, 79>>,
     <<479, 495, 2, 1>>, <<498, 498, 1, 1>>, <<499, 499, 1, 2>>, <<501, 501, 1, 1>>, <<502, 502, 1, 97>>,
     <<503, 503, 1, 56>>, <<505, 543, 2, 1>>, <<544, 544, 1, 130>>, <<547, 563, 2, 1>>, <<572, 572, 1, 1>>,
     <<573, 573, 1, 163>>, <<578, 578, 1, 1>>, <<579, 579, 1, 195>>, <<583, 591, 2, 1>>, <<595, 595, 1, 210>>,
     <<596, 596, 1, 206>>, <<598, 599, 1, 205>>, <<601, 601, 1, 202>>, <<603, 603, 1, 203>>, <<608, 608, 1, 205>>,
     <<611, 611, 1, 207>>, <<616, 616, 1, 209>>, <<617, 617, 1, 211>>, <<623, 623, 1, 211>>, <<626, 626, 1, 213>>,
     <<629, 629, 1, 214>>, <<640, 640, 1, 218>>, <<643, 643, 1, 218>>, <<648, 648, 1, 218>>, <<649, 649, 1, 69>>,
     <<650, 651, 1, 217>>, <<652, 652, 1, 71>>, <<658, 658, 1, 219>>, <<881, 883, 2, 1>>, <<887, 887, 1, 1>>,
     <<921, 921, 1, 84>>, <<924, 924, 1, 743>>, <<940, 940, 1, 38>>, <<941, 943, 1, 37>>, <<945, 952, 1, 32>>,
     <<953, 953, 1, 116>>, <<954, 955, 1, 32>>, <<956, 956, 1, 775>>, <<957, 971, 2, 32>>, <<958, 960, 2, 32>>,
     <<962, 962, 1, 31>>, <<964, 970, 2, 32>>, <<972, 972, 1, 64>>, <<973, 974, 1, 63>>, <<976, 976, 1, 62>>,
     <<977, 977, 1, 57>>, <<981, 981, 1, 47>>, <<982, 982, 1, 54>>, <<983, 983, 1, 8>>, <<985, 1007, 2, 1>>,
     <<1008, 1008, 1, 86>>, <<1009, 1009, 1, 80>>, <<1011, 1011, 1, 116>>, <<1012, 1012, 1, 92>>, <<1013, 1013, 1, 96>>,
     <<1016, 1016, 1, 1>>, <<1017, 1017, 1, 7>>, <<1019, 1019, 1, 1>>, <<1021, 1023, 1, 130>>, <<1072, 1103, 1, 32>>,
     <<1104, 1119, 1, 80>>, <<1121, 1153, 2, 1>>, <<1163, 1215, 2, 1>>, <<1218, 1230, 2, 1>>, <<1231, 1231, 1, 15>>,
     <<1233, 1327, 2, 1>>, <<1377, 1414, 1, 48>>, <<5112, 5117, 1, 8>>, <<7296, 7296, 1, 6254>>, <<7297, 7297, 1, 6253>>,
     <<7298, 7298, 1, 6244>>, <<7299, 7300, 1, 6242>>, <<7301, 7301, 1, 6243>>, <<7302, 7302, 1, 6236>>, <<7303, 7303, 1, 6181>>,
     <<7312, 7354, 1, 3008>>, <<7357, 7359, 1, 3008>>, <<7681, 7829, 2, 1>>, <<7835, 7835, 1, 59>>, <<7838, 7838, 1, 7615>>,
     <<7841, 7935, 2, 1>>, <<7944, 7951, 1, 8>>, <<7960, 7965, 1, 8>>, <<7976, 7983, 1, 8>>, <<7992, 7999, 1, 8>>,
     <<8008, 8013, 1, 8>>, <<8025, 8031, 2, 8>>, <<8040, 8047, 1, 8>>, <<8072, 8079, 1, 8>>, <<8088, 8095, 1, 8>>,
     <<8104, 8111, 1, 8>>, <<8120, 8121, 1, 8>>, <<8122, 8123, 1, 74>>, <<8124, 8124, 1, 9>>, <<8126, 8126, 1, 7289>>,
     <<8136, 8139, 1, 86>>, <<8140, 8140, 1, 9>>, <<8152, 8153, 1, 8>>, <<8154, 8155, 1, 100>>, <<8168, 8169, 1, 8>>,
     <<8170, 8171, 1, 112>>, <<8172, 8172, 1, 7>>, <<8184, 8185, 1, 128>>, <<8186, 8187, 1, 126>>, <<8188, 8188, 1, 9>>,
     <<8486, 8486, 1, 7549>>, <<8490, 8490, 1, 8415>>, <<8491, 8491, 1, 8294>>, <<8526, 8526, 1, 28>>, <<8560, 8575, 1, 16>>,
     <<8580, 8580, 1, 1>>, <<9424, 9449, 1, 26>>, <<11312, 11359, 1, 48>>, <<11361, 11361, 1, 1>>, <<11362, 11362, 1, 10743>>,
     <<11363, 11363, 1, 3814>>, <<11364, 11364, 1, 10727>>, <<11365, 11365, 1, 10795>>, <<11366, 11366, 1, 10792>>, <<11368, 11372, 2, 1>>,
     <<11373, 11373, 1, 10780>>, <<11374, 11374, 1, 10749>>, <<11375, 11375, 1, 10783>>, <<11376, 11376, 1, 10782>>, <<11379, 11379, 1, 1>>,
     <<11382, 11382, 1, 1>>, <<11390, 11391, 1, 10815>>, <<11393, 11491, 2, 1>>, <<11500, 11502, 2, 1>>, <<11507, 11507, 1, 1>>,
     <<11520, 11557, 1, 7264>>, <<11559, 11559, 1, 7264>>, <<11565, 11565, 1, 7264>>, <<42561, 42569, 2, 1>>, <<42570, 42570, 1, 35266>>,
     <<42571, 42571, 1, 35267>>, <<42573, 42605, 2, 1>>, <<42625, 42651, 2, 1>>, <<42787, 42799, 2, 1>>, <<42803, 42863, 2, 1>>,
     <<42874, 42876, 2, 1>>, <<42877, 42877, 1, 35332>>, <<42879, 42887, 2, 1>>, <<42892, 42892, 1, 1>>, <<42893, 42893, 1, 42280>>,
     <<42897, 42899, 2, 1>>, <<42903, 42921, 2, 1>>, <<42922, 42922, 1, 42308>>, <<42923, 42923, 1, 42319>>, <<42924, 42924, 1, 42315>>,
     <<42925, 42925, 1, 42305>>, <<42926, 42926, 1, 42308>>, <<42928, 42928, 1, 42258>>, <<42929, 42929, 1, 42282>>, <<42930, 42930, 1, 42261>>,
     <<42933, 42947, 2, 1>>, <<42948, 42948, 1, 48>>, <<42949, 42949, 1, 42307>>, <<42950, 42950, 1, 35384>>, <<42952, 42954, 2, 1>>,
     <<42961, 42961, 1, 1>>, <<42967, 42969, 2, 1>>, <<42998, 42998, 1, 1>>, <<43859, 43859, 1, 928>>, <<43888, 43967, 1, 38864>>,
     <<65345, 65370, 1, 32>>, <<66600, 66639, 1, 40>>, <<66776, 66811, 1, 40>>, <<66967, 67003, 2, 39>>, <<66968, 66976, 2, 39>>,
     <<66980, 66992, 2, 39>>, <<66996, 67000, 2, 39>>, <<67004, 67004, 1, 39>>, <<68800, 68850, 1, 64>>, <<71872, 71903, 1, 32>>,
     <<93792, 93823, 1, 32>>, <<125218, 125251, 1, 34>>
  >>

\* the least rune of the orbit of r under unicode.SimpleFold
FoldKey(r) ==
  LET hit == {i \in 1..Len(CaseOrbits) :
                /\ CaseOrbits[i][1] <= r /\ r <= CaseOrbits[i][2]
                /\ (r - CaseOrbits[i][1]) % CaseOrbits[i][3] = 0}
  IN IF hit = {} THEN r ELSE r - CaseOrbits[CHOOSE i \in hit : TRUE][4]

\* strings.EqualFold: the two texts, read rune by rune (a byte that starts no
\* valid UTF-8 sequence reading as U+FFFD), have as many runes and each rune
\* of one folds with the rune of the other at its place
EqualFold(a, b) ==
  LET ra == Runes(a)
      rb == Runes(b)
  IN Len(ra) = Len(rb) /\ \A i \in 1..Len(ra) : FoldKey(ra[i]) = FoldKey(rb[i])

\* strings.HasPrefix(a, b)
ContainsPrefix(a, b) == Len(b) <= Len(a) /\ SubSeq(a, 1, Len(b)) = b

\* strings.Contains(a, b)
Contains(a, b) == \E i \in 0..(Len(a) - Len(b)) : SubSeq(a, i + 1, i + Len(b)) = b

\* a closure that takes IP literals only
IPMatchLiteralOnly(requestIP, policyValue) ==
  ParseIP(policyValue) # NoIP /\ requestIP = ParseIP(policyValue)

\* the closure IPAddressFunc hands to anyMatch: an IP literal equal to the
\* request's, else a CIDR block holding it
IPMatch(requestIP, policyValue) ==
  LET Block(n) == n.ok /\ NetContains(n, requestIP)
      Literal(policyIP) ==
        IF policyIP = NoIP THEN Block(ParseCIDR(policyValue)) ELSE requestIP = policyIP
  IN Literal(ParseIP(policyValue))

\* the closure NotIPAddressFunc hands to anyMatch
IPNoMatch(requestIP, policyValue) ==
  LET Block(n) == n.ok /\ ~NetContains(n, requestIP)
      Literal(policyIP) ==
        IF policyIP = NoIP THEN Block(ParseCIDR(policyValue)) ELSE requestIP # policyIP
  IN Literal(ParseIP(policyValue))

\* the comparison each string, date and IP operator makes of the context
\* value a with one acceptable value b
compareFn(op, a, b) ==
  LET Folded(same) == (op = "StringEqualsIgnoreCase") = same
      Dates(aTime, bTime) ==
        CASE op = "DateEquals" -> TimeEqual(aTime, bTime)
          [] op = "DateNotEquals" -> ~TimeEqual(aTime, bTime)
          [] op = "DateLessThan" -> TimeBefore(aTime, bTime)
          [] op = "DateLessThanEquals" -> TimeBefore(aTime, bTime) \/ TimeEqual(aTime, bTime)
          [] op = "DateGreaterThan" -> TimeAfter(aTime, bTime)
          [] op = "DateGreaterThanEquals" -> TimeAfter(aTime, bTime) \/ TimeEqual(aTime, bTime)
      Addresses(requestIP) ==
        IF op = "IPAddress" THEN IPMatch(requestIP, b) ELSE IPNoMatch(requestIP, b)
  IN CASE op = "StringEquals" -> a = b
       [] op = "StringNotEquals" -> a # b
       [] op \in {"StringEqualsIgnoreCase", "StringNotEqualsIgnoreCase"} ->
            Folded(EqualFold(a, b))
       [] op = "StringLike" -> Contains(a, b)
       [] op = "StringNotLike" -> ~Contains(a, b)
       [] op \in DateOps -> Dates(ParseRFC3339(a).t, ParseRFC3339(b).t)
       [] op \in IPOps -> Addresses(ParseIP(a))
       [] OTHER -> FALSE

\* a loop that returns after comparing the first acceptable value
anyMatchFirstOnly(op, value, values, i) ==
  i <= Len(values) /\ compareFn(op, value, values[i])

\* a rule that wants every value of the list to pass the comparison
anyMatchAll(op, value, values, i) ==
  i <= Len(values) /\ \A j \in i..Len(values) : compareFn(op, value, values[j])

RECURSIVE anyMatch(_, _, _, _)
\* anyMatch: the values from the i-th on, compared in order
anyMatch(op, value, values, i) ==
  IF i > Len(values) THEN FALSE
  ELSE IF compareFn(op, value, values[i]) THEN TRUE
  ELSE anyMatch(op, value, values, i + 1)

\* conditionOperatorFuncMap[op](param1, param2) as ConditionMather calls it:
\* param1 is the decoded context value (string, float64 or bool) and param2 a
\* []string.  A failed type assertion panics: param1.(string) on a value that
\* is no string, param1.(int) on every decoded value, param2.([]bool) and
\* param2.([]int) on the []string.
OperatorFunc(op, param1, param2) ==
  IF op \in NumericOps \/ op = "Bool" THEN "panic"
  ELSE IF param1.k # "str" THEN "panic"
  ELSE IF op \in IPOps /\ ParseIP(param1.v) = NoIP THEN "false"
  ELSE IF anyMatch(op, param1.v, param2, 1) THEN "true" ELSE "false"

RECURSIVE EvalEntries(_, _, _, _, _)
\* the inner loop of ConditionMather over the entries of one operator block,
\* in the order the map iteration yields them
EvalEntries(ctx, op, cond, order, j) ==
  IF j > Len(order) THEN "next"
  ELSE LET condKey == order[j] IN
       IF condKey \notin DOMAIN ctx THEN "false"
       ELSE LET r == OperatorFunc(op, ctx[condKey], cond[condKey])
            IN IF r = "true" THEN EvalEntries(ctx, op, cond, order, j + 1) ELSE r

RECURSIVE EvalBlocks(_, _, _, _, _)
\* the outer loop of ConditionMather over the operator blocks
EvalBlocks(ctx, conds, opOrder, entryOrder, k) ==
  IF k > Len(opOrder) THEN "true"
  ELSE LET op == opOrder[k] IN
       IF op \notin KnownOperators THEN "false"
       ELSE LET r == EvalEntries(ctx, op, conds[op], entryOrder[op], 1)
            IN IF r = "next" THEN EvalBlocks(ctx, conds, opOrder, entryOrder, k + 1)
               ELSE r

(***************************************************************************)
(* JSON documents and json.Unmarshal.  A document is the text's value, or  *)
(* JSyntaxError for a text that is not JSON.                               *)
(***************************************************************************)
JSyntaxError == [t |-> "invalid"]
JNull == [t |-> "null"]
JStr(s) == [t |-> "str", v |-> s]
JNum(n) == [t |-> "num", v |-> n]
JBool(b) == [t |-> "bool", v |-> b]
JArr(elems) == [t |-> "arr", v |-> elems]
JObj(members) == [t |-> "obj", v |-> members]

StrVal(v) == [k |-> "str", v |-> v]
NumVal(n) == [k |-> "num", v |-> n]
BoolVal(b) == [k |-> "bool", v |-> b]
NilVal == [k |-> "nil"]
OtherVal == [k |-> "other"]

\* a JSON value decoded into interface{}: string, float64, bool, nil, or a
\* slice or map
UnmarshalAny(doc) ==
  CASE doc.t = "str" -> StrVal(doc.v)
    [] doc.t = "num" -> NumVal(doc.v)
    [] doc.t = "bool" -> BoolVal(doc.v)
    [] doc.t = "null" -> NilVal
    [] OTHER -> OtherVal

NoCond == [op \in {} |-> [a \in {} |-> <<>>]]
NoCtx == [a \in {} |-> StrVal(<<>>)]

\* a decoder that takes any array as a list of strings
UnmarshalStringsLenient(doc) ==
  IF doc.t = "arr"
  THEN [valid |-> TRUE,
        v |-> [i \in 1..Len(doc.v) |-> IF doc.v[i].t = "str" THEN doc.v[i].v ELSE <<>>]]
  ELSE [valid |-> doc.t = "null", v |-> <<>>]

\* json.Unmarshal into a []string: null leaves the slice nil, a null element
\* leaves its string empty, any other element that is no string is an error
UnmarshalStrings(doc) ==
  IF doc.t = "null" THEN [valid |-> TRUE, v |-> <<>>]
  ELSE IF doc.t # "arr" THEN [valid |-> FALSE, v |-> <<>>]
  ELSE IF \E i \in 1..Len(doc.v) : doc.v[i].t \notin {"str", "null"}
       THEN [valid |-> FALSE, v |-> <<>>]
  ELSE [valid |-> TRUE,
        v |-> [i \in 1..Len(doc.v) |-> IF doc.v[i].t = "str" THEN doc.v[i].v ELSE <<>>]]

\* json.Unmarshal into a ConditionValue
UnmarshalConditionValue(doc) ==
  IF doc.t = "null" THEN [valid |-> TRUE, v |-> [a \in {} |-> <<>>]]
  ELSE IF doc.t # "obj" THEN [valid |-> FALSE, v |-> [a \in {} |-> <<>>]]
  ELSE IF \E a \in DOMAIN doc.v : ~UnmarshalStrings(doc.v[a]).valid
       THEN [valid |-> FALSE, v |-> [a \in {} |-> <<>>]]
  ELSE [valid |-> TRUE, v |-> [a \in DOMAIN doc.v |-> UnmarshalStrings(doc.v[a]).v]]

\* json.Unmarshal([]byte(conditionString), &conds): valid is err == nil
UnmarshalCondition(doc) ==
  IF doc.t = "null" THEN [valid |-> TRUE, v |-> NoCond]
  ELSE IF doc.t # "obj" THEN [valid |-> FALSE, v |-> NoCond]
  ELSE IF \E op \in DOMAIN doc.v : ~UnmarshalConditionValue(doc.v[op]).valid
       THEN [valid |-> FALSE, v |-> NoCond]
  ELSE [valid |-> TRUE, v |-> [op \in DOMAIN doc.v |-> UnmarshalConditionValue(doc.v[op]).v]]

\* json.Unmarshal([]byte(condsContextString), &condsContext)
UnmarshalContext(doc) ==
  IF doc.t = "null" THEN [valid |-> TRUE, v |-> NoCtx]
  ELSE IF doc.t # "obj" THEN [valid |-> FALSE, v |-> NoCtx]
  ELSE [valid |-> TRUE, v |-> [a \in DOMAIN doc.v |-> UnmarshalAny(doc.v[a])]]

\* ConditionMather(context, condition); opOrder and entryOrder are the orders
\* in which the two range loops visit the maps
ConditionMather(contextDoc, conditionDoc, opOrder, entryOrder) ==
  LET decodedConds == UnmarshalCondition(conditionDoc)
      decodedContext == UnmarshalContext(contextDoc)
  IN IF ~decodedConds.valid THEN [out |-> "false", err |-> "json"]
     ELSE IF ~decodedContext.valid THEN [out |-> "false", err |-> "json"]
     ELSE [out |-> EvalBlocks(decodedContext.v, decodedConds.v, opOrder, entryOrder, 1),
           err |-> "nil"]

\* the orders a range loop can visit a set of keys in
Perms(S) ==
  {f \in [1..Cardinality(S) -> S] : \A i, j \in 1..Cardinality(S) : f[i] = f[j] => i = j}

EntryOrders(cd) ==
  {f \in [DOMAIN cd -> UNION {Perms(DOMAIN cd[o]) : o \in DOMAIN cd}] :
     \A o \in DOMAIN cd : f[o] \in Perms(DOMAIN cd[o])}

(***************************************************************************)
(* SpecCond: ConditionMather on the conditions and contexts below, its map *)
(* iterations in every order.                                              *)
(***************************************************************************)
SourceIp == "acs:SourceIp"
CurrentTime == "acs:CurrentTime"
AttrSamples == {SourceIp, CurrentTime}
NoAttr == "-"

OpSamples == {"StringEquals", "StringNotEquals", "DateLessThan", "IPAddress",
              "NumericEquals", "UnknownOperator"}

\* the values a context gives each attribute
CtxValues(a) ==
  IF a = SourceIp
  THEN {JStr(IP_10_0_0_1), JStr(IP_127_0_0_1)}
  ELSE {JStr(T_2024_01_10), JNum(5), JBool(TRUE)}

\* the acceptable-value lists a condition gives each attribute
ListSamples(a) ==
  IF a = SourceIp
  THEN {<<IP_10_0_0_1>>, <<IP_192_168_1_1, CIDR_10_8>>, <<>>}
  ELSE {<<T_2024_01_12>>, <<T_2024_01_05, T_2024_01_10>>, <<>>}

RECURSIVE SetsUpTo(_, _)
\* the subsets of S with at most n elements
SetsUpTo(S, n) ==
  IF n = 0 THEN {{}}
  ELSE LET smaller == SetsUpTo(S, n - 1)
       IN smaller \cup {T \cup {x} : T \in smaller, x \in S}

\* a condition from its operator blocks and entries: I holds <<op, attr>> for
\* each entry and <<op, NoAttr>> for a block given without entries
CondOf(I, pick) ==
  [op \in {i[1] : i \in I} |->
     [a \in {i[2] : i \in {x \in I : x[1] = op /\ x[2] # NoAttr}} |-> pick[<<op, a>>]]]

CondSamples ==
  UNION {
    LET real == {x \in I : x[2] # NoAttr}
    IN {CondOf(I, pick) :
          pick \in {f \in [real -> UNION {ListSamples(a) : a \in AttrSamples}] :
                      \A x \in real : f[x] \in ListSamples(x[2])}}
    : I \in SetsUpTo(OpSamples \X (AttrSamples \cup {NoAttr}), MaxPairs)}

CtxSamples ==
  UNION {
    {f \in [D -> UNION {CtxValues(a) : a \in AttrSamples}] :
       \A a \in D : f[a] \in CtxValues(a)}
    : D \in SUBSET AttrSamples}

\* json.Marshal of a condition
CondDoc(c) ==
  JObj([op \in DOMAIN c |->
          JObj([a \in DOMAIN c[op] |->
                  JArr([i \in 1..Len(c[op][a]) |-> JStr(c[op][a][i])])])])

\* condition texts json.Unmarshal does not take as a Condition of lists of
\* strings: no JSON, a list, a block or an entry given as a string, a number
\* in a list; and the texts null and {"StringEquals": null}
OddCondDocs ==
  {JSyntaxError, JArr(<<>>), JNull,
   JObj([op \in {"StringEquals"} |-> JStr(IP_10_0_0_1)]),
   JObj([op \in {"StringEquals"} |-> JNull]),
   JObj([op \in {"IPAddress"} |-> JObj([a \in {SourceIp} |-> JStr(IP_10_0_0_1)])]),
   JObj([op \in {"StringEquals"} |-> JObj([a \in {CurrentTime} |-> JArr(<<JNum(5)>>)])])}

\* context texts that are no JSON object
OddCtxDocs == {JSyntaxError, JArr(<<>>), JNull, JStr(IP_10_0_0_1)}

NoCres == [out |-> "none", err |-> "nil"]

InitCond ==
  /\ cache = <<>>
  /\ tpl = <<>> /\ cand = <<>> /\ tres = NoTres
  /\ pc = "call"
  /\ condJSON \in {CondDoc(c) : c \in CondSamples} \cup OddCondDocs
  /\ ctxJSON \in {JObj(c) : c \in CtxSamples} \cup OddCtxDocs
  /\ cres = NoCres
  /\ handlers = <<>> /\ ures = NoUres
  /\ handler = "return" /\ main = NoMain /\ svc = <<>>
  /\ ctxDone = FALSE /\ errChan = "open" /\ rret = NoRret
  /\ callers = <<>> /\ lock = Free /\ recent = <<>>
  /\ sf = NoSf /\ idres = NoIdres

ConditionMatherCall ==
  /\ pc = "call"
  /\ \E opOrder \in Perms(DOMAIN UnmarshalCondition(condJSON).v),
        entryOrder \in EntryOrders(UnmarshalCondition(condJSON).v) :
       cres' = ConditionMather(ctxJSON, condJSON, opOrder, entryOrder)
  /\ pc' = "done"
  /\ UNCHANGED <<ctxJSON, condJSON>>
  /\ UNCHANGED matcherVars
  /\ UNCHANGED templateVars
  /\ UNCHANGED unionVars
  /\ UNCHANGED runnerVars
  /\ UNCHANGED concVars
  /\ UNCHANGED idgenVars

NextCond == ConditionMatherCall

SpecCond == InitCond /\ [][NextCond]_vars

(***************************************************************************)
(* SpecOperator: ConditionMather on a condition of one block with one      *)
(* entry, for every operator of the table, over texts of its family.       *)
(***************************************************************************)
OpKey == "key"

\* the acceptable values tried under each operator
OperatorTexts(op) ==
  CASE op \in StringOps -> {TXT_admin, TXT_Admin, TXT_dmi, TXT_a_star_n, TXT_star, <<>>}
    [] op \in DateOps -> {T_2024_01_10, T_2024_01_12, T_2024_01_05, T_2024_01_10_plus2,
                          TXT_date_only}
    [] op \in IPOps -> {IP_192_168_234_50, CIDR_192_168_234_24, IP_203_0_113_9,
                        IP_127_0_0_1, IP_10_0_0_1, CIDR_10_8, TXT_not_an_ip,
                        IP6_mapped_10_0_0_1}
    [] op \in NumericOps -> {TXT_10, TXT_3, TXT_5}
    [] OTHER -> {TXT_true, TXT_false}

\* the context values tried under each operator: the same texts, and a value
\* of another JSON type
OperatorCtxValues(op) ==
  {JStr(t) : t \in OperatorTexts(op)}
    \cup (IF op \in NumericOps THEN {JNum(5), JNum(10)}
          ELSE IF op = "Bool" THEN {JBool(TRUE), JBool(FALSE)}
          ELSE {JNum(5)})

\* the lists of at most n elements of S
ListsOver(S, n) == UNION {[1..k -> S] : k \in 0..n}

InitOperator ==
  /\ cache = <<>>
  /\ tpl = <<>> /\ cand = <<>> /\ tres = NoTres
  /\ pc = "call"
  /\ \E op \in KnownOperators :
       \E value \in OperatorCtxValues(op), list \in ListsOver(OperatorTexts(op), MaxValues) :
         /\ ctxJSON = JObj([a \in {OpKey} |-> value])
         /\ condJSON = CondDoc([o \in {op} |-> [a \in {OpKey} |-> list]])
  /\ cres = NoCres
  /\ handlers = <<>> /\ ures = NoUres
  /\ handler = "return" /\ main = NoMain /\ svc = <<>>
  /\ ctxDone = FALSE /\ errChan = "open" /\ rret = NoRret
  /\ callers = <<>> /\ lock = Free /\ recent = <<>>
  /\ sf = NoSf /\ idres = NoIdres

NextOperator == ConditionMatherCall

SpecOperator == InitOperator /\ [][NextOperator]_vars

(***************************************************************************)
(* SpecUnion: one request to the authenticator union.New builds from a      *)
(* chain of at most MaxHandlers handlers, for every way they can answer.   *)
(***************************************************************************)
HandlerAnswers == [resp : BOOLEAN, ok : BOOLEAN, err : BOOLEAN]

InitUnion ==
  /\ cache = <<>>
  /\ tpl = <<>> /\ cand = <<>> /\ tres = NoTres
  /\ ctxJSON = JNull /\ condJSON = JNull /\ cres = NoCres
  /\ pc = "call"
  /\ handlers \in UNION {[1..n -> HandlerAnswers] : n \in 0..MaxHandlers}
  /\ ures = NoUres
  /\ handler = "return" /\ main = NoMain /\ svc = <<>>
  /\ ctxDone = FALSE /\ errChan = "open" /\ rret = NoRret
  /\ callers = <<>> /\ lock = Free /\ recent = <<>>
  /\ sf = NoSf /\ idres = NoIdres

UnionAuthenticate ==
  /\ pc = "call"
  /\ ures' = New(handlers)
  /\ pc' = "done"
  /\ UNCHANGED handlers
  /\ UNCHANGED runnerVars
  /\ UNCHANGED concVars
  /\ UNCHANGED idgenVars
  /\ UNCHANGED matcherVars
  /\ UNCHANGED templateVars
  /\ UNCHANGED condVars

NextUnion == UnionAuthenticate

SpecUnion == InitUnion /\ [][NextUnion]_vars

(***************************************************************************)
(* SpecIdgen: calls of Initialize and of the six id functions in every     *)
(* order, on a generator that starts or not and reports an error or not.   *)
(***************************************************************************)
\* "user"
PFX_user ==
  <<117, 115, 101, 114>>
\* "tenant_123_user"
PFX_tenant ==
  <<116, 101, 110, 97, 110, 116, 95, 49, 50, 51, 95, 117, 115, 101, 114>>
PrefixSamples == {<<>>, PFX_user, PFX_tenant}

InitIdgen ==
  /\ cache = <<>>
  /\ tpl = <<>> /\ cand = <<>> /\ tres = NoTres
  /\ ctxJSON = JNull /\ condJSON = JNull /\ cres = NoCres
  /\ handlers = <<>> /\ ures = NoUres
  /\ handler = "return" /\ main = NoMain /\ svc = <<>>
  /\ ctxDone = FALSE /\ errChan = "open" /\ rret = NoRret
  /\ callers = <<>> /\ lock = Free /\ recent = <<>>
  /\ pc = "idle"
  /\ sf \in {[NoSf EXCEPT !.startable = b] : b \in BOOLEAN}
  /\ idres = NoIdres

IdgenFrame ==
  /\ UNCHANGED pc
  /\ UNCHANGED matcherVars
  /\ UNCHANGED templateVars
  /\ UNCHANGED condVars
  /\ UNCHANGED unionVars
  /\ UNCHANGED runnerVars
  /\ UNCHANGED concVars

\* what a call of fn leaves: the generator, and in idres what it returned,
\* with the id sonyflake gave it, or 0 when it gave none
IdCall(fn, prefix, id, r) ==
  /\ sf' = r.sf
  /\ idres' = [fn |-> fn, prefix |-> prefix, id |-> IF r.sf.last = id THEN id ELSE 0,
               num |-> r.num, out |-> r.out, err |-> r.err, panic |-> r.panic]

\* Initialize(settings): it returns nothing, or panics
InitializeCall ==
  /\ \E settings \in Settings :
       /\ sf' = Initialize(settings, sf)
       /\ idres' = [NoIdres EXCEPT !.fn = "Initialize",
                      !.panic = sf.state = "unset" /\ ~NewSonyflake(settings, sf)]
  /\ IdgenFrame

NextIDCall ==
  /\ sf.last < MaxId
  /\ \E id \in (sf.last + 1)..MaxId, fails \in BOOLEAN :
       IdCall("NextID", <<>>, id, NextID(sf, id, fails))
  /\ IdgenFrame

MustNextIDCall ==
  /\ sf.last < MaxId
  /\ \E id \in (sf.last + 1)..MaxId, fails \in BOOLEAN :
       IdCall("MustNextID", <<>>, id, MustNextID(sf, id, fails))
  /\ IdgenFrame

NextIDStringCall ==
  /\ sf.last < MaxId
  /\ \E id \in (sf.last + 1)..MaxId, fails \in BOOLEAN :
       IdCall("NextIDString", <<>>, id, NextIDString(sf, id, fails))
  /\ IdgenFrame

MustNextIDStringCall ==
  /\ sf.last < MaxId
  /\ \E id \in (sf.last + 1)..MaxId, fails \in BOOLEAN :
       IdCall("MustNextIDString", <<>>, id, MustNextIDString(sf, id, fails))
  /\ IdgenFrame

NextIDStringWithPrefixCall ==
  /\ sf.last < MaxId
  /\ \E prefix \in PrefixSamples, id \in (sf.last + 1)..MaxId, fails \in BOOLEAN :
       IdCall("NextIDStringWithPrefix", prefix, id,
              NextIDStringWithPrefix(sf, prefix, id, fails))
  /\ IdgenFrame

MustNextIDStringWithPrefixCall ==
  /\ sf.last < MaxId
  /\ \E prefix \in PrefixSamples, id \in (sf.last + 1)..MaxId, fails \in BOOLEAN :
       IdCall("MustNextIDStringWithPrefix", prefix, id,
              MustNextIDStringWithPrefix(sf, prefix, id, fails))
  /\ IdgenFrame

NextIdgen ==
  \/ InitializeCall
  \/ NextIDCall
  \/ MustNextIDCall
  \/ NextIDStringCall
  \/ MustNextIDStringCall
  \/ NextIDStringWithPrefixCall
  \/ MustNextIDStringWithPrefixCall

SpecIdgen == InitIdgen /\ [][NextIdgen]_vars

(***************************************************************************)
(* SpecConc: two goroutines call Matches on one matcher at the same time,  *)
(* one call each, their steps interleaved in every order.                  *)
(***************************************************************************)
Callers == {1, 2}

\* candidates a, b, c
ConcNeedles == {<<97>>, <<98>>, <<99>>}

\* pattern lists: a*   b,a*   *a,b*,a*   b*,*a   *b,*
ConcPatterns ==
  { <<97, 42>>, <<98, 44, 97, 42>>, <<42, 97, 44, 98, 42, 44, 97, 42>>,
    <<98, 42, 44, 42, 97>>, <<42, 98, 44, 42>> }

\* the evaluations that run over budget: none, or those of b*
ConcSlow == {{}, {<<98, 42>>}}

InitConc ==
  /\ cache = <<>>
  /\ tpl = <<>> /\ cand = <<>> /\ tres = NoTres
  /\ ctxJSON = JNull /\ condJSON = JNull /\ cres = NoCres
  /\ handlers = <<>> /\ ures = NoUres
  /\ handler = "return" /\ main = NoMain /\ svc = <<>>
  /\ ctxDone = FALSE /\ errChan = "open" /\ rret = NoRret
  /\ sf = NoSf /\ idres = NoIdres
  /\ pc = "matcher"
  /\ \E over \in ConcSlow :
       callers \in [Callers -> {CallerAt("Matches", n, k, over \cap WildcardElems(k), 1) :
                                  n \in ConcNeedles, k \in ConcPatterns}]
  /\ lock = Free
  /\ recent = <<>>

NextConc ==
  \E id \in Callers :
    \/ LoopHead(id) /\ MatcherFrame
    \/ LockCache(id) /\ MatcherFrame
    \/ CacheGet(id) /\ MatcherFrame
    \/ CompileStep(id) /\ MatcherFrame
    \/ CacheSet(id) /\ MatcherFrame
    \/ MatchStep(id) /\ MatcherFrame

SpecConc == InitConc /\ [][NextConc]_vars

(***************************************************************************)
(* SpecRunner: RunServices with one to MaxServices services, each of whose *)
(* Run calls returns nil or an error, or blocks; the caller may cancel the *)
(* context at any moment.  SpecRunnerFair adds that every goroutine that   *)
(* can take a step of its own takes it; a Run call may block for ever and  *)
(* the caller need not cancel.                                             *)
(***************************************************************************)
InitRunner ==
  /\ cache = <<>>
  /\ tpl = <<>> /\ cand = <<>> /\ tres = NoTres
  /\ ctxJSON = JNull /\ condJSON = JNull /\ cres = NoCres
  /\ handlers = <<>> /\ ures = NoUres
  /\ sf = NoSf /\ idres = NoIdres
  /\ callers = <<>> /\ lock = Free /\ recent = <<>>
  /\ pc = "runner"
  /\ handler \in {"return", "log"}
  /\ main = [pc |-> "spawn", started |-> 0]
  /\ \E n \in 1..MaxServices : svc = [k \in 1..n |-> Unborn]
  /\ ctxDone = FALSE
  /\ errChan = "open"
  /\ rret = NoRret

RunnerFrame ==
  /\ UNCHANGED pc
  /\ UNCHANGED matcherVars
  /\ UNCHANGED templateVars
  /\ UNCHANGED condVars
  /\ UNCHANGED <<handlers, ures>>
  /\ UNCHANGED idgenVars
  /\ UNCHANGED concVars

MainSteps == (StartService \/ MainCtxDone \/ MainClose \/ MainCancel) /\ RunnerFrame

ServiceSteps(k) ==
  (ServiceLoop(k) \/ ServiceCheck(k) \/ ServiceSend(k) \/ ServiceSleep(k)) /\ RunnerFrame

NextRunner ==
  \/ StartService /\ RunnerFrame
  \/ MainCtxDone /\ RunnerFrame
  \/ MainClose /\ RunnerFrame
  \/ MainCancel /\ RunnerFrame
  \/ ParentCancel /\ RunnerFrame
  \/ \E k \in DOMAIN svc :
       \/ ServiceLoop(k) /\ RunnerFrame
       \/ ServiceRun(k) /\ RunnerFrame
       \/ ServiceCheck(k) /\ RunnerFrame
       \/ ServiceSend(k) /\ RunnerFrame
       \/ ServiceSleep(k) /\ RunnerFrame

SpecRunner == InitRunner /\ [][NextRunner]_vars

SpecRunnerFair ==
  /\ InitRunner /\ [][NextRunner]_vars
  /\ WF_vars(MainSteps)
  /\ \A k \in 1..MaxServices : WF_vars(k \in DOMAIN svc /\ ServiceSteps(k))

(***************************************************************************)
(* SpecFresh: a Matches call on a freshly created matcher, for every       *)
(* candidate and pattern list within the bounds, taken step by step while  *)
(* a second goroutine calls Matches on the same matcher.                   *)
(***************************************************************************)
NeedleChars == {<<97>>, <<10>>, <<195, 169>>}
PatChars == {<<97>>, <<42>>, <<44>>, <<46>>, <<195, 169>>}

\* the calls of the second goroutine: Matches("a", "*") and Matches("a", "a*")
OtherCalls ==
  {CallerAt("Matches", <<97>>, <<42>>, {}, 1), CallerAt("Matches", <<97>>, <<97, 42>>, {}, 1)}

InitFresh ==
  /\ cache = <<>>
  /\ pc = "matcher"
  /\ \E k1 \in StringsOver(NeedleChars, MaxNeedleLen), k2 \in StringsOver(PatChars, MaxPatLen) :
       \E over \in SUBSET WildcardElems(k2), other \in OtherCalls :
         callers = <<CallerAt("Matches", k1, k2, over, 1), other>>
  /\ lock = Free /\ recent = <<>>
  /\ tpl = <<>> /\ cand = <<>> /\ tres = NoTres
  /\ ctxJSON = JNull /\ condJSON = JNull /\ cres = NoCres
  /\ handlers = <<>> /\ ures = NoUres
  /\ handler = "return" /\ main = NoMain /\ svc = <<>>
  /\ ctxDone = FALSE /\ errChan = "open" /\ rret = NoRret
  /\ sf = NoSf /\ idres = NoIdres

NextFresh ==
  \E id \in {1, 2} :
    \/ LoopHead(id) /\ MatcherFrame
    \/ LockCache(id) /\ MatcherFrame
    \/ CacheGet(id) /\ MatcherFrame
    \/ CompileStep(id) /\ MatcherFrame
    \/ CacheSet(id) /\ MatcherFrame
    \/ MatchStep(id) /\ MatcherFrame

SpecFresh == InitFresh /\ [][NextFresh]_vars

(***************************************************************************)
(* Spec: a matcher of capacity CacheSize that two goroutines call, each    *)
(* with one Matches or MustMatch call after another, its cache kept from   *)
(* call to call.  The calls of the two goroutines overlap in every way,    *)
(* lock by lock; MaxCalls calls are made in all.                           *)
(***************************************************************************)
\* candidates: a, b, ab
NeedleSamples == {<<97>>, <<98>>, <<97, 98>>}

\* pattern lists: a*  ab  b*,ab  *a,b*,a*  *,a
PatternSamples ==
  { <<97, 42>>, <<97, 98>>, <<98, 42, 44, 97, 98>>,
    <<42, 97, 44, 98, 42, 44, 97, 42>>, <<42, 44, 97>> }

\* the evaluations of a call on k2 that run over budget: none, or those of
\* one wildcard element, at which the call ends
SlowSamples(k2) == {{}} \cup {{e} : e \in WildcardElems(k2)}

Init ==
  /\ cache = <<>>
  /\ pc = "matcher"
  /\ callers = [id \in Callers |-> NoCall]
  /\ lock = Free /\ recent = <<>>
  /\ tpl = <<>> /\ cand = <<>> /\ tres = NoTres
  /\ ctxJSON = JNull /\ condJSON = JNull /\ cres = NoCres
  /\ handlers = <<>> /\ ures = NoUres
  /\ handler = "return" /\ main = NoMain /\ svc = <<>>
  /\ ctxDone = FALSE /\ errChan = "open" /\ rret = NoRret
  /\ sf = NoSf /\ idres = NoIdres

\* the calls made so far
CallsMade == callers[1].calls + callers[2].calls

\* m.Matches(k1, k2) is called
CallMatches(id) ==
  /\ CallsMade < MaxCalls
  /\ \E k1 \in NeedleSamples, k2 \in PatternSamples :
       \E over \in SlowSamples(k2) : Call(id, "Matches", k1, k2, over)

\* m.MustMatch(k1, k2) is called
CallMustMatch(id) ==
  /\ CallsMade < MaxCalls
  /\ \E k1 \in NeedleSamples, k2 \in PatternSamples :
       \E over \in SlowSamples(k2) : Call(id, "MustMatch", k1, k2, over)

Next ==
  \E id \in Callers :
    \/ CallMatches(id) /\ MatcherFrame
    \/ CallMustMatch(id) /\ MatcherFrame
    \/ LoopHead(id) /\ MatcherFrame
    \/ LockCache(id) /\ MatcherFrame
    \/ CacheGet(id) /\ MatcherFrame
    \/ CompileStep(id) /\ MatcherFrame
    \/ CacheSet(id) /\ MatcherFrame
    \/ MatchStep(id) /\ MatcherFrame

Spec == Init /\ [][Next]_vars

(***************************************************************************)
(* SpecTemplate: CompileRegex on every template within the bounds and on    *)
(* sample templates, with delimiters < and >, and the expression it        *)
(* returns tried on a candidate.                                           *)
(***************************************************************************)
\* template characters: a . | * < >
TplChars == {<<97>>, <<46>>, <<124>>, <<42>>, <<60>>, <<62>>}
\* candidate characters: a . |
CandChars == {<<97>>, <<46>>, <<124>>}

\* "foo:bar.baz:<[0-9]{2,10}>", the template of the example of CompileRegex
TPL_doc ==
  <<102, 111, 111, 58, 98, 97, 114, 46, 98, 97, 122, 58, 60, 91, 48, 45, 57, 93, 123, 50, 44, 49, 48, 125, 62>>
\* "<a+>", a span with a + quantifier
TPL_plus ==
  <<60, 97, 43, 62>>
\* "id-<\d+>.<[a-c]?>", two spans, with a class escape and a class
TPL_digits ==
  <<105, 100, 45, 60, 92, 100, 43, 62, 46, 60, 91, 97, 45, 99, 93, 63, 62>>
\* "a<^a>", a span that starts with an anchor
TPL_bol ==
  <<97, 60, 94, 97, 62>>
\* "<a$>a", a span that ends with an anchor
TPL_end ==
  <<60, 97, 36, 62, 97>>
\* "<?:a>", a span that reads as the head of a group once it is wrapped
TPL_group ==
  <<60, 63, 58, 97, 62>>
\* "<(a)\1>", a span with a reference to its first group
TPL_ref ==
  <<60, 40, 97, 41, 92, 49, 62>>
\* "<(a)><(.)\1>", a second span with a reference to its first group
TPL_ref_two ==
  <<60, 40, 97, 41, 62, 60, 40, 46, 41, 92, 49, 62>>
\* "<(?'n'a)?><(?'n'\.)?\k'n'>", two spans with a group of the same name
TPL_ref_name ==
  <<60, 40, 63, 39, 110, 39, 97, 41, 63, 62,
    60, 40, 63, 39, 110, 39, 92, 46, 41, 63, 92, 107, 39, 110, 39, 62>>
\* "foo:bar.baz:123", the candidate of the example of CompileRegex
CAND_doc_123 ==
  <<102, 111, 111, 58, 98, 97, 114, 46, 98, 97, 122, 58, 49, 50, 51>>
\* "foo:bar.baz:abc"
CAND_doc_abc ==
  <<102, 111, 111, 58, 98, 97, 114, 46, 98, 97, 122, 58, 97, 98, 99>>
\* "foo:bar.baz:1"
CAND_doc_1 ==
  <<102, 111, 111, 58, 98, 97, 114, 46, 98, 97, 122, 58, 49>>
\* "foo:bar.baz:[0-9]{2,10}"
CAND_doc_raw ==
  <<102, 111, 111, 58, 98, 97, 114, 46, 98, 97, 122, 58, 91, 48, 45, 57, 93, 123, 50, 44, 49, 48, 125>>
\* "aa"
CAND_aa ==
  <<97, 97>>
\* "id-42.b"
CAND_id ==
  <<105, 100, 45, 52, 50, 46, 98>>
\* "id-42.d"
CAND_id_d ==
  <<105, 100, 45, 52, 50, 46, 100>>
\* ":a"
CAND_colon_a ==
  <<58, 97>>
\* "a.a"
CAND_a_dot_a ==
  <<97, 46, 97>>
\* "a.."
CAND_a_dot_dot ==
  <<97, 46, 46>>
TemplateSamples ==
  {TPL_doc, TPL_plus, TPL_digits, TPL_bol, TPL_end, TPL_group,
   TPL_ref, TPL_ref_two, TPL_ref_name}
CandidateSamples ==
  {CAND_doc_123, CAND_doc_abc, CAND_doc_1, CAND_doc_raw,
   CAND_aa, CAND_id, CAND_id_d, CAND_colon_a, CAND_a_dot_a, CAND_a_dot_dot}

InitTemplate ==
  /\ cache = <<>>
  /\ pc = "call"
  /\ \/ /\ tpl \in StringsOver(TplChars, MaxTplLen)
        /\ cand \in StringsOver(CandChars, MaxCandLen)
     \/ /\ tpl \in TemplateSamples
        /\ cand \in CandidateSamples \cup StringsOver(CandChars, MaxCandLen)
  /\ tres = NoTres
  /\ ctxJSON = JNull /\ condJSON = JNull /\ cres = NoCres
  /\ handlers = <<>> /\ ures = NoUres
  /\ handler = "return" /\ main = NoMain /\ svc = <<>>
  /\ ctxDone = FALSE /\ errChan = "open" /\ rret = NoRret
  /\ callers = <<>> /\ lock = Free /\ recent = <<>>
  /\ sf = NoSf /\ idres = NoIdres

\* CompileRegex(tpl, '<', '>') and, on the expression it returns, with its
\* MatchTimeout of regexp2MatchTimeout, reg.MatchString(cand)
CompileAndMatch ==
  /\ pc = "call"
  /\ \E overBudget \in BOOLEAN :
       LET r == CompileRegex(tpl, 60, 62)
           m == IF r.err = "nil" THEN MatchString(r.reg, cand, overBudget)
                ELSE [matched |-> FALSE, err |-> "nil"]
       IN tres' = [reg |-> r.reg, err |-> r.err, compiles |-> r.compiles,
                   matched |-> m.matched, merr |-> m.err]
  /\ pc' = "done"
  /\ UNCHANGED <<tpl, cand>>
  /\ UNCHANGED matcherVars
  /\ UNCHANGED condVars
  /\ UNCHANGED unionVars
  /\ UNCHANGED runnerVars
  /\ UNCHANGED concVars
  /\ UNCHANGED idgenVars

NextTemplate == CompileAndMatch

SpecTemplate == InitTemplate /\ [][NextTemplate]_vars

(***************************************************************************)
(* Properties of Matches.                                                  *)
(***************************************************************************)
HasComma(s) == \E i \in 1..Len(s) : s[i] = 44

RECURSIVE Glob(_, _)
\* s is p with each * replaced by a possibly empty string, every other
\* character of p standing for itself
Glob(p, s) ==
  IF p = <<>> THEN s = <<>>
  ELSE IF Head(p) = 42
       THEN \E k \in 0..Len(s) : Glob(Tail(p), SubSeq(s, k + 1, Len(s)))
       ELSE s # <<>> /\ Head(s) = Head(p) /\ Glob(Tail(p), Tail(s))

\* S matches the element e taken alone, with the evaluations of over running
\* over budget
MatchesAlone(k1, e, over) == Matches(<<>>, k1, e, over).ok

\* the calls that have returned
Done == {callers[id] : id \in {k \in DOMAIN callers : callers[k].pc = "done"}}

\* C1 as stated: for a pattern string without *, Matches is true exactly when
\* the candidate equals the pattern string.
C1_Original ==
  \A c \in Done : ~ContainsStar(c.key2) => (c.ok <=> c.needle = c.key2)

\* C1 amended: for a pattern string without * and without comma, Matches
\* returns true exactly when the candidate equals it, and never an error.
C1_LiteralExact ==
  \A c \in Done :
    (~ContainsStar(c.key2) /\ ~HasComma(c.key2))
      => (c.ok <=> c.needle = c.key2) /\ c.err = "nil"

C1_Witness ==
  \E c \in Done :
    /\ ~ContainsStar(c.key2) /\ ~HasComma(c.key2)
    /\ c.key2 # <<>> /\ c.needle = c.key2 /\ c.ok

\* C2: for a single element with at least one * and no comma, evaluated within
\* budget, Matches is true exactly when the candidate is the element with each
\* * replaced by some string and every other character kept.
C2_WildcardDenotation ==
  \A c \in Done :
    (ContainsStar(c.key2) /\ ~HasComma(c.key2) /\ c.slow = {})
      => (c.ok <=> Glob(c.key2, c.needle))

\* C3: for every non-empty candidate, Matches(S, "*") evaluated within budget
\* returns true with a nil error.
C3_StarMatchesAll ==
  \A c \in Done :
    (c.key2 = <<42>> /\ c.needle # <<>> /\ c.slow = {}) => c.ok /\ c.err = "nil"

\* C4 as stated: Matches(S, L) is true exactly when S matches at least one
\* element of L taken alone.
C4_Original ==
  \A c \in Done :
    c.ok <=> \E e \in Elements(c.key2) : MatchesAlone(c.needle, e, c.slow)

\* C4 amended: whenever Matches(S, L) returns a nil error, it is true exactly
\* when S matches at least one element of L taken alone.
C4_AnyElementUnlessError ==
  \A c \in Done :
    c.err = "nil" =>
      (c.ok <=> \E e \in Elements(c.key2) : MatchesAlone(c.needle, e, c.slow))

C4_Witness ==
  \E c \in Done :
    /\ c.err = "nil" /\ c.ok
    /\ Cardinality(Elements(c.key2)) >= 2
    /\ \E e \in Elements(c.key2) : ~MatchesAlone(c.needle, e, c.slow)
    /\ ~MatchesAlone(c.needle, Split(c.key2)[1], c.slow)

\* C5: whatever the cache holds after earlier calls, and whatever calls go on
\* at the same time, Matches returns what it returns on a freshly created
\* matcher with an empty cache.
C5_CacheIsTransparent ==
  \A c \in Done :
    /\ c.ok = Matches(<<>>, c.needle, c.key2, c.slow).ok
    /\ c.err = Matches(<<>>, c.needle, c.key2, c.slow).err

Range(q) == {q[i] : i \in 1..Len(q)}

\* a call that was served from the cache for one element and compiled and
\* inserted another, which a later insert has evicted from the full cache
C5_Witness ==
  \E c \in Done :
    /\ c.hits # <<>> /\ c.compiled # <<>>
    /\ Len(cache) = Capacity(CacheSize)
    /\ Range(c.compiled) \ CacheKeys(cache) # {}

\* the elements of the list that Matches evaluates: those before which no
\* element matched and no evaluation failed
ElemFailsIn(h, over) == ContainsStar(h) /\ (CompileWildcardRegex(h).err \/ h \in over)

ElemMatchesIn(h, needle, over) ==
  IF ContainsStar(h)
  THEN ~ElemFailsIn(h, over) /\ FindMatch(CompileWildcardRegex(h).reg, needle)
  ELSE h = needle

Evaluated(hs, i, needle, over) ==
  \A j \in 1..(i - 1) : ~ElemFailsIn(hs[j], over) /\ ~ElemMatchesIn(hs[j], needle, over)

\* the call c reaches an element whose compilation or evaluation fails
Fails(c) ==
  \E i \in 1..Len(Split(c.key2)) :
    /\ Evaluated(Split(c.key2), i, c.needle, c.slow)
    /\ ElemFailsIn(Split(c.key2)[i], c.slow)

\* C6: Matches returns a non-nil error exactly when compiling or evaluating an
\* element it reaches fails; then the result is false; a plain non-match is
\* (false, nil).
C6_ErrorIffEvaluationFails ==
  \A c \in Done :
    /\ (c.err # "nil") <=> Fails(c)
    /\ c.err # "nil" => ~c.ok

\* a call whose second element ran over budget after the first did not match
C6_Witness ==
  \E c \in Done :
    /\ c.err = "timeout" /\ ~c.ok
    /\ Len(Split(c.key2)) >= 2 /\ Split(c.key2)[2] \in c.slow
    /\ Split(c.key2)[1] \notin c.slow

(***************************************************************************)
(* Properties of CompileRegex.                                             *)
(***************************************************************************)
\* opening minus closing delimiters among the first i bytes of t
Depth(t, i) ==
  Cardinality({k \in 1..i : t[k] = 60}) - Cardinality({k \in 1..i : t[k] = 62})

Balanced(t) == Depth(t, Len(t)) = 0 /\ \A i \in 1..Len(t) : Depth(t, i) >= 0

\* the top-level delimited spans <<i, j>> of a balanced template: t[i] opens
\* at depth 0 and t[j] is the delimiter that closes it
TopSpans(t) ==
  {x \in (1..Len(t)) \X (1..Len(t)) :
     /\ x[1] < x[2] /\ t[x[1]] = 60 /\ t[x[2]] = 62
     /\ Depth(t, x[1] - 1) = 0 /\ Depth(t, x[2]) = 0
     /\ \A k \in x[1]..(x[2] - 1) : Depth(t, k) > 0}

\* m matches the raw expression patt from its first to its last character
RawMatches(patt, m) ==
  LET c == Compile(Runes(patt))
  IN ~c.err /\ \E st \in Step(c.reg, Runes(m), Starts({0})) : st[1] = Len(Runes(m))

RECURSIVE Composes(_, _, _, _)
\* c from position p on is the rest of the template from byte i on: literal
\* bytes verbatim, and for each top-level span a string matching its expression
Composes(t, i, c, p) ==
  IF i > Len(t) THEN p = Len(c)
  ELSE IF \E x \in TopSpans(t) : x[1] = i
  THEN LET x == CHOOSE y \in TopSpans(t) : y[1] = i
       IN \E q \in p..Len(c) :
            /\ RawMatches(SubSeq(t, i + 1, x[2] - 1), SubSeq(c, p + 1, q))
            /\ Composes(t, x[2] + 1, c, q)
  ELSE p < Len(c) /\ c[p + 1] = t[i] /\ Composes(t, i + 1, c, p + 1)

\* C7: a template with unbalanced delimiters yields the structural error, no
\* expression, and no call of the regular-expression compiler; a balanced
\* template never yields the structural error.
C7_UnbalancedIsStructuralError ==
  pc = "done" =>
    /\ ~Balanced(tpl) =>
         tres.err = "unbalanced" /\ tres.reg = NoReg /\ tres.compiles = 0
    /\ Balanced(tpl) => tres.err # "unbalanced"

\* an open delimiter that is never closed, in a template that also closes one
C7_Witness ==
  /\ pc = "done" /\ tres.err = "unbalanced" /\ tres.compiles = 0
  /\ \A i \in 1..Len(tpl) : Depth(tpl, i) >= 0
  /\ Depth(tpl, Len(tpl)) > 0
  /\ \E i \in 1..Len(tpl) : tpl[i] = 62

RECURSIVE ContextFree(_)
\* the expression has no anchor, word boundary, lookaround or reference to a
\* group in it
ContextFree(node) ==
  CASE node.t \in {"bol", "end", "wordb", "look", "ref"} -> FALSE
    [] node.t \in {"seq", "alt"} -> \A k \in 1..Len(node.ns) : ContextFree(node.ns[k])
    [] node.t \in {"star", "rep", "cap"} -> ContextFree(node.n)
    [] OTHER -> TRUE

\* every top-level span of t is a regular expression on its own, and one
\* that matches a string whatever stands around it
SpansStandAlone(t) ==
  \A x \in TopSpans(t) :
    LET c == Compile(Runes(SubSeq(t, x[1] + 1, x[2] - 1)))
    IN ~c.err /\ ContextFree(c.reg)

conds == UnmarshalCondition(condJSON)
condsContext == UnmarshalContext(ctxJSON)

Decoded == conds.valid /\ condsContext.valid

\* every block is a string, date or IP operator and every attribute it names
\* is a string of the context
StringTyped ==
  \A op \in DOMAIN conds.v :
    /\ op \in StringOps \cup DateOps \cup IPOps
    /\ \A a \in DOMAIN conds.v[op] :
         a \in DOMAIN condsContext.v /\ condsContext.v[a].k = "str"

\* the context value a satisfies the operator on the acceptable value b
Satisfies(op, a, b) ==
  /\ op \in IPOps => ParseIP(a) # NoIP
  /\ compareFn(op, a, b)

EveryEntrySatisfied ==
  \A op \in DOMAIN conds.v :
    \A a \in DOMAIN conds.v[op] :
      \E i \in 1..Len(conds.v[op][a]) :
        Satisfies(op, condsContext.v[a].v, conds.v[op][a][i])

\* C9: over string, date and IP operators on string attributes the context
\* has, ConditionMather returns true exactly when every entry of every block
\* has at least one acceptable value the context value satisfies (so the
\* empty condition gives true), and it returns no error.
C9_ConjunctionOfDisjunctions ==
  (pc = "done" /\ Decoded /\ StringTyped) =>
    /\ cres.err = "nil"
    /\ cres.out = (IF EveryEntrySatisfied THEN "true" ELSE "false")

\* two entries, both satisfied, one of them only by the second value of its list
C9_Witness ==
  /\ pc = "done" /\ Decoded /\ StringTyped
  /\ cres.out = "true"
  /\ \E op1, op2 \in DOMAIN conds.v :
       /\ SourceIp \in DOMAIN conds.v[op1]
       /\ CurrentTime \in DOMAIN conds.v[op2]
       /\ \E op \in {op1, op2}, a \in AttrSamples :
            /\ a \in DOMAIN conds.v[op]
            /\ Len(conds.v[op][a]) = 2
            /\ ~Satisfies(op, condsContext.v[a].v, conds.v[op][a][1])

HasUnknownOperator == \E op \in DOMAIN conds.v : op \notin KnownOperators

\* C10: a condition with an operator name the table does not hold makes
\* ConditionMather return false and no error.
C10_UnknownOperatorIsFalse ==
  (pc = "done" /\ Decoded /\ HasUnknownOperator) =>
    (cres.out = "false" /\ cres.err = "nil")

NamesAbsentAttribute ==
  \E op \in DOMAIN conds.v :
    \E a \in DOMAIN conds.v[op] : a \notin DOMAIN condsContext.v

\* C11: a condition one of whose blocks names an attribute the context does
\* not hold makes ConditionMather return false and no error.
C11_AbsentAttributeIsFalse ==
  (pc = "done" /\ Decoded /\ NamesAbsentAttribute) =>
    (cres.out = "false" /\ cres.err = "nil")

\* the shape a condition text is expected to have: an object of objects of
\* lists of strings, null standing for an empty one of each
StringList(doc) ==
  doc.t = "null" \/ (doc.t = "arr" /\ \A i \in 1..Len(doc.v) : doc.v[i].t \in {"str", "null"})
EntriesObject(doc) ==
  doc.t = "null" \/ (doc.t = "obj" /\ \A a \in DOMAIN doc.v : StringList(doc.v[a]))
ConditionShaped(doc) ==
  doc.t = "null" \/ (doc.t = "obj" /\ \A op \in DOMAIN doc.v : EntriesObject(doc.v[op]))
ContextShaped(doc) == doc.t \in {"null", "obj"}

\* C12: when the context text or the condition text is not JSON of the
\* expected shape, ConditionMather returns an error and the boolean false.
C12_UndecodableIsError ==
  (pc = "done" /\ (~ConditionShaped(condJSON) \/ ~ContextShaped(ctxJSON))) =>
    (cres.err # "nil" /\ cres.out = "false")

\* a condition that is JSON but holds a number where a string is expected,
\* with a context that decodes
C12_Witness ==
  /\ pc = "done"
  /\ ContextShaped(ctxJSON) /\ ctxJSON.t = "obj"
  /\ condJSON.t = "obj"
  /\ \E op \in DOMAIN condJSON.v :
       /\ condJSON.v[op].t = "obj"
       /\ \E a \in DOMAIN condJSON.v[op].v : ~StringList(condJSON.v[op].v[a])
  /\ cres.err = "json" /\ cres.out = "false"

ScalarContext ==
  \A a \in DOMAIN condsContext.v : condsContext.v[a].k \in {"str", "num", "bool"}
OnlyKnownOperators == \A op \in DOMAIN conds.v : op \in KnownOperators

\* C13: on a context of strings, numbers and booleans and a condition of
\* known operators ConditionMather completes with a boolean and no error.
C13_AlwaysCompletes ==
  (pc = "done" /\ Decoded /\ ScalarContext /\ OnlyKnownOperators) =>
    (cres.out \in {"true", "false"} /\ cres.err = "nil")

(***************************************************************************)
(* Claims about single operators, read off a call with one block and one   *)
(* entry under OpKey.                                                      *)
(***************************************************************************)
theOp == CHOOSE op \in DOMAIN conds.v : TRUE
theValue == condsContext.v[OpKey]
theList == conds.v[theOp][OpKey]

IntegerOrder(op, m, n) ==
  CASE op = "NumericEquals" -> m = n
    [] op = "NumericNotEquals" -> m # n
    [] op = "NumericLessThan" -> m < n
    [] op = "NumericLessThanEquals" -> m <= n
    [] op = "NumericGreaterThan" -> m > n
    [] op = "NumericGreaterThanEquals" -> m >= n
    [] OTHER -> FALSE

\* C14: a Numeric operator on a context number and acceptable integers is
\* true exactly when the context integer stands in the operator's order to at
\* least one of them (5 under NumericLessThan: true with "10", false with "3").
C14_NumericComparesIntegers ==
  (pc = "done" /\ theOp \in NumericOps /\ theValue.k = "num") =>
    cres.out = (IF \E i \in 1..Len(theList) :
                     IntegerOrder(theOp, theValue.v, DigitsValue(theList[i]))
                THEN "true" ELSE "false")

\* the sample timestamps that are RFC3339, and the minute each denotes,
\* counted from 2024-01-01T00:00:00Z
ValidDateTexts == {T_2024_01_10, T_2024_01_12, T_2024_01_05, T_2024_01_10_plus2}
MinuteOf(text) ==
  CASE text = T_2024_01_05 -> 4 * 1440
    [] text = T_2024_01_10 -> 9 * 1440
    [] text = T_2024_01_10_plus2 -> 9 * 1440 + 2 * 60 - 2 * 60
    [] text = T_2024_01_12 -> 11 * 1440 + 6 * 60 + 59

ChronoOrder(op, m, n) ==
  CASE op = "DateEquals" -> m = n
    [] op = "DateNotEquals" -> m # n
    [] op = "DateLessThan" -> m < n
    [] op = "DateLessThanEquals" -> m <= n
    [] op = "DateGreaterThan" -> m > n
    [] op = "DateGreaterThanEquals" -> m >= n
    [] OTHER -> FALSE

\* C15: with RFC3339 timestamps on both sides a Date operator is true exactly
\* when the context instant stands in the operator's chronological order to
\* at least one acceptable instant; the same instant written with another
\* UTC offset is equal.
C15_DatesCompareInstants ==
  (/\ pc = "done" /\ theOp \in DateOps /\ theValue.k = "str"
   /\ theValue.v \in ValidDateTexts
   /\ \A i \in 1..Len(theList) : theList[i] \in ValidDateTexts) =>
    /\ cres.err = "nil"
    /\ cres.out = (IF \E i \in 1..Len(theList) :
                        ChronoOrder(theOp, MinuteOf(theValue.v), MinuteOf(theList[i]))
                   THEN "true" ELSE "false")

\* DateEquals finds the context instant in a list that writes it with the
\* offset +02:00, after an earlier instant that is not equal
C15_Witness ==
  /\ pc = "done" /\ theOp = "DateEquals"
  /\ theValue = StrVal(T_2024_01_10)
  /\ theList = <<T_2024_01_05, T_2024_01_10_plus2>>
  /\ cres.out = "true"

\* C16: a pair with an unparsable timestamp on either side never makes
\* DateEquals, DateLessThan, DateLessThanEquals, DateGreaterThan or
\* DateGreaterThanEquals true.
C16_UnparsableDateNeverTrue ==
  (/\ pc = "done" /\ theValue.k = "str"
   /\ theOp \in {"DateEquals", "DateLessThan", "DateLessThanEquals",
                 "DateGreaterThan", "DateGreaterThanEquals"}) =>
    cres.out = (IF \E i \in 1..Len(theList) :
                     /\ theValue.v \in ValidDateTexts /\ theList[i] \in ValidDateTexts
                     /\ ChronoOrder(theOp, MinuteOf(theValue.v), MinuteOf(theList[i]))
                THEN "true" ELSE "false")

\* the sample texts that are IP literals, with their octets, and the sample
\* CIDR blocks, with the addresses they hold
IPLiterals == {IP_192_168_234_50, IP_203_0_113_9, IP_127_0_0_1, IP_10_0_0_1,
               IP6_mapped_10_0_0_1}
OctetsOf(text) ==
  CASE text = IP_192_168_234_50 -> <<192, 168, 234, 50>>
    [] text = IP_203_0_113_9 -> <<203, 0, 113, 9>>
    [] text = IP_127_0_0_1 -> <<127, 0, 0, 1>>
    [] text = IP_10_0_0_1 -> <<10, 0, 0, 1>>
    [] text = IP6_mapped_10_0_0_1 -> <<10, 0, 0, 1>>
InBlock(octets, text) ==
  CASE text = CIDR_192_168_234_24 -> SubSeq(octets, 1, 3) = <<192, 168, 234>>
    [] text = CIDR_10_8 -> octets[1] = 10
    [] OTHER -> FALSE

\* C17: IPAddress is true exactly when the context value is an IP literal and
\* some acceptable value is that literal or a CIDR block holding it.
C17_IPAddressLiteralOrBlock ==
  (pc = "done" /\ theOp = "IPAddress" /\ theValue.k = "str") =>
    /\ cres.err = "nil"
    /\ cres.out = (IF /\ theValue.v \in IPLiterals
                      /\ \E i \in 1..Len(theList) :
                           \/ /\ theList[i] \in IPLiterals
                              /\ OctetsOf(theList[i]) = OctetsOf(theValue.v)
                           \/ InBlock(OctetsOf(theValue.v), theList[i])
                   THEN "true" ELSE "false")

\* 192.168.234.50 is found in 192.168.234.0/24, tried after a text that is
\* neither an IP nor a CIDR
C17_Witness ==
  /\ pc = "done" /\ theOp = "IPAddress"
  /\ theValue = StrVal(IP_192_168_234_50)
  /\ theList = <<TXT_not_an_ip, CIDR_192_168_234_24>>
  /\ cres.out = "true"

\* b occurs in a as a contiguous stretch
Occurs(b, a) ==
  \E lo \in 0..Len(a) : \E hi \in lo..Len(a) : [k \in 1..(hi - lo) |-> a[lo + k]] = b

\* C18: StringLike is true exactly when some acceptable value occurs in the
\* context value, a * standing for itself; StringNotLike exactly when some
\* acceptable value does not occur in it.
C18_StringLikeIsSubstring ==
  (pc = "done" /\ theOp \in {"StringLike", "StringNotLike"} /\ theValue.k = "str") =>
    /\ cres.err = "nil"
    /\ cres.out = (IF \E i \in 1..Len(theList) :
                        IF theOp = "StringLike" THEN Occurs(theList[i], theValue.v)
                        ELSE ~Occurs(theList[i], theValue.v)
                   THEN "true" ELSE "false")

\* "admin" holds "dmi" inside it, and does not hold "a*n"
C18_Witness ==
  /\ pc = "done" /\ theOp = "StringLike"
  /\ theValue = StrVal(TXT_admin)
  /\ theList = <<TXT_a_star_n, TXT_dmi>>
  /\ cres.out = "true"

NegatedOps == {"StringNotEquals", "StringNotEqualsIgnoreCase", "DateNotEquals", "NotIPAddress"}

\* the acceptable value b is different from the context value a, in the sense
\* of the negated operator op: another text, another text whatever the case
\* of its letters, another instant, another address or a block without it
Differs(op, a, b) ==
  CASE op = "StringNotEquals" -> a # b
    [] op = "StringNotEqualsIgnoreCase" -> a # b /\ {a, b} # {TXT_admin, TXT_Admin}
    [] op = "DateNotEquals" -> MinuteOf(a) # MinuteOf(b)
    [] op = "NotIPAddress" ->
         \/ b \in IPLiterals /\ OctetsOf(b) # OctetsOf(a)
         \/ b \in {CIDR_192_168_234_24, CIDR_10_8} /\ ~InBlock(OctetsOf(a), b)

\* C26: a negated operator is true exactly when at least one acceptable value
\* differs from the context value (for a CIDR block, does not hold it); a
\* list with the context value and one other value makes StringNotEquals
\* true.
C26_NegatedAnyOneValue ==
  (/\ pc = "done" /\ theOp \in NegatedOps /\ theValue.k = "str"
   /\ theOp = "DateNotEquals" =>
        /\ theValue.v \in ValidDateTexts
        /\ \A i \in 1..Len(theList) : theList[i] \in ValidDateTexts
   /\ theOp = "NotIPAddress" => theValue.v \in IPLiterals) =>
    /\ cres.err = "nil"
    /\ cres.out = (IF \E i \in 1..Len(theList) : Differs(theOp, theValue.v, theList[i])
                   THEN "true" ELSE "false")

\* StringNotEquals on "admin" with the list "admin", "Admin" is true
C26_Witness ==
  /\ pc = "done" /\ theOp = "StringNotEquals"
  /\ theValue = StrVal(TXT_admin)
  /\ theList = <<TXT_admin, TXT_Admin>>
  /\ cres.out = "true"

\* the outcomes the call can have on its two arguments, over the orders in
\* which the maps can be visited
Outcomes ==
  {ConditionMather(ctxJSON, condJSON, opOrder, entryOrder) :
     opOrder \in Perms(DOMAIN conds.v), entryOrder \in EntryOrders(conds.v)}

\* C19: the outcome of ConditionMather on a context and a condition does not
\* depend on the order in which the blocks and the entries are visited.
C19_OrderIndependent == pc = "done" => Outcomes = {cres}

(***************************************************************************)
(* Claims about the union authenticator.                                   *)
(***************************************************************************)
Succeeds(i) == handlers[i].ok /\ ~handlers[i].err
SomeSucceeds == \E i \in 1..Len(handlers) : Succeeds(i)
FirstSuccess == CHOOSE i \in 1..Len(handlers) : Succeeds(i) /\ \A j \in 1..(i - 1) : ~Succeeds(j)

\* the handlers that answered with an error, in chain order
RECURSIVE ErrorsOf(_)
ErrorsOf(n) ==
  IF n = 0 THEN <<>>
  ELSE IF handlers[n].err THEN Append(ErrorsOf(n - 1), n) ELSE ErrorsOf(n - 1)

ReturnsFirstSuccess ==
  /\ ures.resp = (IF handlers[FirstSuccess].resp THEN FirstSuccess ELSE NilResponse)
  /\ ures.ok /\ ures.err = NilError
  /\ ures.calls = FirstSuccess

\* C20 as stated: the first handler that answers ok with no error decides,
\* and later handlers are not called; when none does the result is
\* (nil, false) with the aggregate of the handlers' errors.
C20_Original ==
  pc = "done" =>
    IF SomeSucceeds THEN ReturnsFirstSuccess
    ELSE /\ ures.resp = NilResponse /\ ~ures.ok
         /\ ures.err.errs = ErrorsOf(Len(handlers))

\* C20: as above for a chain of no handler or of two or more, the aggregate
\* being errors.Join of the errors returned, nil when there was none; a
\* chain of one handler returns what that handler returns, unchanged.
C20_ChainOrSingleHandler ==
  pc = "done" =>
    IF SomeSucceeds THEN ReturnsFirstSuccess
    ELSE IF Len(handlers) = 1
    THEN ures = Returns(Answer(handlers, 1).resp, Answer(handlers, 1).ok,
                        Answer(handlers, 1).err, 1)
    ELSE /\ ures.resp = NilResponse /\ ~ures.ok
         /\ ures.err = Join(ErrorsOf(Len(handlers)))
         /\ ures.calls = Len(handlers)

\* a chain of three whose first handler answers ok next to an error and whose
\* second succeeds: the second's response comes back and the third is not called
C20_Witness ==
  /\ pc = "done" /\ Len(handlers) = 3
  /\ handlers[1].ok /\ handlers[1].err
  /\ Succeeds(2) /\ handlers[2].resp /\ Succeeds(3)
  /\ ures.resp = 2 /\ ures.ok /\ ures.calls = 2

(***************************************************************************)
(* Claims about the id generator.                                          *)
(***************************************************************************)
\* C21: a call that returns gives, for a non-empty prefix, the prefix, then
\* "-", then the decimal form of the fresh id, and for the empty prefix the
\* decimal id alone.
C21_PrefixDashId ==
  (/\ idres.fn \in {"NextIDStringWithPrefix", "MustNextIDStringWithPrefix"}
   /\ ~idres.panic /\ idres.err = "nil") =>
    idres.out = (IF idres.prefix = <<>> THEN FormatUint(idres.id)
                 ELSE idres.prefix \o <<45>> \o FormatUint(idres.id))

(***************************************************************************)
(* Claims about what one call evaluates, compiles and inserts.             *)
(***************************************************************************)
\* the last position of hs that a call reaches when it stops at the first
\* of the positions in stops
StopAt(hs, stops) ==
  IF stops = {} THEN Len(hs) ELSE CHOOSE i \in stops : \A j \in stops : i <= j

WildcardPositions(hs, last) == {j \in 1..last : ContainsStar(hs[j])}

\* the positions of its list at which the call c matches, and those at which
\* its evaluation fails
MatchingAt(c) ==
  {i \in 1..Len(Split(c.key2)) : ElemMatchesIn(Split(c.key2)[i], c.needle, c.slow)}

FailingAt(c) ==
  {i \in 1..Len(Split(c.key2)) : ElemFailsIn(Split(c.key2)[i], c.slow)}

\* the call c, which has returned, looked up each wildcard element of its
\* list up to position last once and none after it, and compiled those it
\* did not find cached
LookedUpTo(c, last) ==
  /\ Range(c.hits) \cup Range(c.compiled)
       = {Split(c.key2)[j] : j \in WildcardPositions(Split(c.key2), last)}
  /\ Len(c.hits) + Len(c.compiled) = Cardinality(WildcardPositions(Split(c.key2), last))

\* a step that puts a pattern into the cache is the insert of a caller, of
\* the wildcard element it is at, which it has compiled itself after its
\* lookup missed, at a position of its list not after last(c)
InsertsUpTo(last(_)) ==
  \A id \in DOMAIN callers :
    (callers[id].pc = "inSet" /\ callers'[id].pc = "match") =>
      /\ ContainsStar(Elem(callers[id]))
      /\ callers[id].i <= last(callers[id])
      /\ callers[id].compiled # <<>>
      /\ callers[id].compiled[Len(callers[id].compiled)] = Elem(callers[id])
      /\ Elem(callers[id]) \in CacheKeys(cache')
      /\ CacheKeys(cache') \subseteq CacheKeys(cache) \cup {Elem(callers[id])}

\* a step of any other kind puts no pattern into the cache
OnlyInserts ==
  (\A id \in DOMAIN callers : ~(callers[id].pc = "inSet" /\ callers'[id].pc = "match"))
    => CacheKeys(cache') \subseteq CacheKeys(cache)

\* the position at which the call c stops when it stops at its first match
FirstMatch(c) == StopAt(Split(c.key2), MatchingAt(c))

\* the position at which the call c stops: its first match or failure
FirstMatchOrFailure(c) == StopAt(Split(c.key2), MatchingAt(c) \cup FailingAt(c))

\* C24 as stated: a Matches call inserts exactly the wildcard elements it did
\* not find cached among those up to and including the first element that
\* matches; later elements and elements without * are never inserted.
C24_Original ==
  [][/\ InsertsUpTo(FirstMatch)
     /\ OnlyInserts
     /\ \A id \in DOMAIN callers :
          (callers[id].pc # "done" /\ callers'[id].pc = "done")
            => LookedUpTo(callers'[id], FirstMatch(callers'[id]))]_vars

\* C24 amended: a Matches call inserts exactly the wildcard elements it did
\* not find cached among those up to and including the first element that
\* matches or whose evaluation fails.
C24_InsertsWhatItEvaluates ==
  [][/\ InsertsUpTo(FirstMatchOrFailure)
     /\ OnlyInserts
     /\ \A id \in DOMAIN callers :
          (callers[id].pc # "done" /\ callers'[id].pc = "done")
            => LookedUpTo(callers'[id], FirstMatchOrFailure(callers'[id]))]_vars

\* a call that was served one element from the cache, compiled and inserted
\* another, and stopped at a match before the end of its list
C24_Witness ==
  \E c \in Done :
    /\ c.ok /\ c.hits # <<>> /\ c.compiled # <<>>
    /\ Len(c.hits) + Len(c.compiled)
         < Cardinality(WildcardPositions(Split(c.key2), Len(Split(c.key2))))

\* C25: when the evaluation of an element ends in an error, the call returns
\* the error with result false, having looked at each wildcard element up to
\* that one once and at none after it.
C25_ErrorEndsTheCall ==
  \A c \in Done :
    c.err # "nil" =>
      /\ ~c.ok
      /\ FailingAt(c) # {}
      /\ \A j \in 1..(StopAt(Split(c.key2), FailingAt(c)) - 1) :
           ~ElemMatchesIn(Split(c.key2)[j], c.needle, c.slow)
      /\ LookedUpTo(c, StopAt(Split(c.key2), FailingAt(c)))

\* a call that ran over budget on an element followed by a wildcard element
\* that matches the candidate and was not looked at
C25_Witness ==
  \E c \in Done :
    /\ c.err = "timeout" /\ ~c.ok
    /\ \E j \in 2..Len(Split(c.key2)) :
         /\ ContainsStar(Split(c.key2)[j])
         /\ ElemMatchesIn(Split(c.key2)[j], c.needle, c.slow)
         /\ Split(c.key2)[j] \notin Range(c.hits) \cup Range(c.compiled)

(***************************************************************************)
(* Claims about the cache under concurrent callers.                        *)
(***************************************************************************)
PositionIn(history, k) == CHOOSE i \in 1..Len(history) : history[i] = k

\* a step that drops a pattern from the cache drops one pattern, from a full
\* cache, and every pattern that stays was inserted or looked up after it
EvictsLeastRecentlyUsed ==
  LET gone == CacheKeys(cache) \ CacheKeys(cache')
  IN gone # {} =>
       /\ Len(cache) = Capacity(CacheSize)
       /\ Cardinality(gone) = 1
       /\ \A k \in gone : \A j \in CacheKeys(cache) \ gone :
            PositionIn(recent, j) < PositionIn(recent, k)

\* C22: the cache never holds more patterns than its capacity, which is the
\* size given, or 512 for a size of 0 or less (and for the 512 of
\* DefaultMatcher); an insert into a full cache
\* evicts the pattern least recently inserted or looked up.
C22_BoundedLRU ==
  /\ [](/\ Len(cache) <= Capacity(CacheSize)
        /\ Capacity(CacheSize) = CacheSize
        /\ Capacity(0) = 512 /\ Capacity(-1) = 512 /\ Capacity(512) = 512)
  /\ [][EvictsLeastRecentlyUsed]_vars

\* a full cache that has evicted a pattern, after a caller was served a
\* pattern from the cache
C22_Witness ==
  /\ Len(cache) = Capacity(CacheSize)
  /\ \E i \in 1..Len(recent) : recent[i] \notin CacheKeys(cache)
  /\ \E id \in Callers :
       /\ callers[id].pc = "done" /\ callers[id].ok
       /\ callers[id].compiled = <<>>
       /\ ContainsStar(Split(callers[id].key2)[callers[id].i])

\* C23: under every interleaving the cache holds one entry per pattern, and a
\* call that has returned has returned what it returns run alone.
C23_ConcurrentCallsAsAlone ==
  /\ Cardinality(CacheKeys(cache)) = Len(cache)
  /\ \A id \in DOMAIN callers :
       callers[id].pc = "done" =>
         LET alone == Matches(<<>>, callers[id].needle, callers[id].key2, callers[id].slow)
         IN callers[id].ok = alone.ok /\ callers[id].err = alone.err

\* both callers missed on the same element, both compiled and inserted it,
\* and both have returned
C23_Witness ==
  /\ \A id \in Callers : callers[id].pc = "done"
  /\ \E i \in 1..Len(callers[1].compiled), j \in 1..Len(callers[2].compiled) :
       /\ callers[1].compiled[i] = callers[2].compiled[j]
       /\ callers[1].compiled[i] \in CacheKeys(cache)
  /\ callers[1].ok /\ ~callers[2].ok

\* C27: the mutex is held only inside the lookup and inside the insert; a
\* caller that is compiling does not hold it.
C27_NoLockWhileCompiling ==
  \A id \in DOMAIN callers :
    /\ lock = id => callers[id].pc \in {"inGet", "inSet"}
    /\ callers[id].pc = "compile" => lock # id

\* one caller is compiling a pattern while the other is inside its lookup of
\* a different pattern
C27_Witness ==
  \E id, other \in Callers :
    /\ callers[id].pc = "compile"
    /\ callers[other].pc = "inGet" /\ lock = other
    /\ Elem(callers[id]) # Elem(callers[other])

(***************************************************************************)
(* Claims about RunServices.                                               *)
(***************************************************************************)
\* an error that Run reported, the handler did not suppress, and the
\* goroutine found the context not cancelled
Reported == \E k \in DOMAIN svc : svc[k].reported

ReturnedError == rret.returned /\ rret.err # NoErr

\* C28: an error that a Run reports and the handler does not suppress, while
\* the context is not cancelled, is eventually returned by RunServices; the
\* runs in which the context is cancelled after the error are left aside.
C28_FirstErrorReturned == Reported ~> (ReturnedError \/ ctxDone)

\* C29: with two or more services, once RunServices has taken the first
\* error and closed errChan, no other service goroutine sends on the closed
\* channel (a send that panics).
C29_NoSendOnClosed ==
  (Len(svc) >= 2 /\ rret.err # NoErr /\ errChan = "closed") =>
    \A k \in DOMAIN svc : svc[k].pc # "panicked"

(***************************************************************************)
(* Claims about MustMatch.                                                 *)
(***************************************************************************)
\* C30: MustMatch returns true exactly when its Matches call returns
\* (true, nil), and false when Matches returns an error, as for a non-match.
C30_MustMatchIsOkAndNoError ==
  \A c \in Done :
    c.fn = "MustMatch" =>
      /\ c.must = (c.ok /\ c.err = "nil")
      /\ c.err # "nil" => c.must = FALSE

\* a MustMatch call whose Matches ran into a timeout on a list that holds a
\* later element equal to the candidate, answered false
C30_Witness ==
  \E c \in Done :
    /\ c.fn = "MustMatch" /\ c.err = "timeout" /\ ~c.must
    /\ \E i \in 1..Len(Split(c.key2)) : Split(c.key2)[i] = c.needle

====
